---------------------------- MODULE Spec2Model ----------------------------
(***************************************************************************)
(* Model of the rentverse-ai-service inference core:                       *)
(*   rentverse/utils/preprocessor.py  (validation, field cleaning,         *)
(*                                     the fitted preprocessor)            *)
(*   rentverse/models/ml_models.py    (PropertyPricePredictionModel)       *)
(*   rentverse/core/exceptions.py     (the exception taxonomy)             *)
(*                                                                         *)
(* Conventions.  A Python value is a tagged record:                        *)
(*   [t |-> "int", i |-> n]        an int                                  *)
(*   [t |-> "float", tenths |-> n] a float, held in tenths (1200.0 = 12000)*)
(*   [t |-> "nan"]                 float('nan')                            *)
(*   [t |-> "str", s |-> chars]    a str, as a sequence of 1-char strings  *)
(*   [t |-> "none"]                None                                    *)
(*   [t |-> "list", len |-> n]     a list of n strings                     *)
(* A Python dict is a function from key names to such values; a key the    *)
(* dict does not have is not in its DOMAIN.  A raised exception is a       *)
(* record [ok |-> FALSE, exc |-> <class name>].                            *)
(***************************************************************************)
EXTENDS Integers, Sequences, FiniteSets, TLC

-----------------------------------------------------------------------------
(* Python values *)

PyInt(n) == [t |-> "int", i |-> n]

PyFloat(n) == [t |-> "float", tenths |-> n]

PyStr(chars) == [t |-> "str", s |-> chars]

PyNone == [t |-> "none"]

PyNaN == [t |-> "nan"]

PyList(n) == [t |-> "list", len |-> n]

Raise(cls) == [ok |-> FALSE, exc |-> cls]

Abs(x) == IF x < 0 THEN -x ELSE x

\* Integer division truncating toward zero, as int() of a float does.
TruncDiv(a, b) == IF a >= 0 THEN a \div b ELSE -((-a) \div b)

-----------------------------------------------------------------------------
(* Strings as character sequences *)

UpperLetters ==
    <<"A","B","C","D","E","F","G","H","I","J","K","L","M",
      "N","O","P","Q","R","S","T","U","V","W","X","Y","Z">>

LowerLetters ==
    <<"a","b","c","d","e","f","g","h","i","j","k","l","m",
      "n","o","p","q","r","s","t","u","v","w","x","y","z">>

Digits == <<"0","1","2","3","4","5","6","7","8","9">>

Whitespace == {" ", "\t", "\n"}

IsDigit(c) == \E k \in 1..10 : Digits[k] = c

DigitValue(c) == (CHOOSE k \in 1..10 : Digits[k] = c) - 1

LowerChar(c) ==
    IF \E k \in 1..26 : UpperLetters[k] = c
    THEN LowerLetters[CHOOSE k \in 1..26 : UpperLetters[k] = c]
    ELSE c

\* str.lower()
Lower(chars) == [k \in 1..Len(chars) |-> LowerChar(chars[k])]

\* str.strip(): leading and trailing whitespace removed
Strip(chars) ==
    LET keep == {k \in 1..Len(chars) : chars[k] \notin Whitespace}
    IN  IF keep = {} THEN <<>>
        ELSE LET lo == CHOOSE k \in keep : \A j \in keep : k <= j
                 hi == CHOOSE k \in keep : \A j \in keep : k >= j
             IN  SubSeq(chars, lo, hi)

\* `needle in haystack` for two strs
Contains(haystack, needle) ==
    \E k \in 0..(Len(haystack) - Len(needle)) :
        SubSeq(haystack, k + 1, k + Len(needle)) = needle

\* the decimal digits of a natural number
RECURSIVE NatToChars(_)
NatToChars(n) ==
    IF n < 10 THEN <<Digits[n + 1]>>
    ELSE NatToChars(n \div 10) \o <<Digits[(n % 10) + 1]>>

IntToChars(n) == IF n < 0 THEN <<"-">> \o NatToChars(-n) ELSE NatToChars(n)

\* repr of a float in positional notation: "1200.0", "0.5", "-1.0"
FloatToChars(tenths) ==
    (IF tenths < 0 THEN <<"-">> ELSE <<>>)
        \o NatToChars(Abs(tenths) \div 10) \o <<".">> \o NatToChars(Abs(tenths) % 10)

\* str(x)
Str(v) ==
    CASE v.t = "str"   -> v.s
      [] v.t = "int"   -> IntToChars(v.i)
      [] v.t = "float" -> FloatToChars(v.tenths)
      [] v.t = "nan"   -> <<"n","a","n">>
      [] v.t = "none"  -> <<"N","o","n","e">>
      [] v.t = "list"  -> <<"[","]">>
      [] v.t = "enum"  -> v.qualified

RECURSIVE DigitsToNat(_)
DigitsToNat(chars) ==
    IF chars = <<>> THEN 0
    ELSE 10 * DigitsToNat(SubSeq(chars, 1, Len(chars) - 1)) + DigitValue(chars[Len(chars)])

\* a numeral: digits with at most one decimal point and at least one digit
WellFormedNumeral(body) ==
    /\ \A k \in 1..Len(body) : IsDigit(body[k]) \/ body[k] = "."
    /\ Cardinality({k \in 1..Len(body) : body[k] = "."}) <= 1
    /\ \E k \in 1..Len(body) : IsDigit(body[k])

DotPosition(body) ==
    IF \E k \in 1..Len(body) : body[k] = "."
    THEN CHOOSE k \in 1..Len(body) : body[k] = "."
    ELSE Len(body) + 1

\* the value of a numeral in tenths; digits after the first decimal are dropped
MagnitudeAt(body, dot) ==
    10 * DigitsToNat(SubSeq(body, 1, dot - 1))
        + (IF dot < Len(body) THEN DigitValue(body[dot + 1]) ELSE 0)

ParseMagnitude(body, sign) ==
    IF ~WellFormedNumeral(body) THEN Raise("ValueError")
    ELSE [ok |-> TRUE, tenths |-> sign * MagnitudeAt(body, DotPosition(body))]

ParseSigned(s) ==
    IF s # <<>> /\ s[1] \in {"-", "+"}
    THEN ParseMagnitude(Tail(s), IF s[1] = "-" THEN -1 ELSE 1)
    ELSE ParseMagnitude(s, 1)

\* float(<str>): surrounding whitespace is ignored, then an optional sign and a
\* numeral; anything else is a ValueError
ParseFloat(chars) == ParseSigned(Strip(chars))

\* float(x), for the finite values the inputs hold
ToFloat(v) ==
    CASE v.t = "int"   -> [ok |-> TRUE, tenths |-> 10 * v.i]
      [] v.t = "float" -> [ok |-> TRUE, tenths |-> v.tenths]
      [] v.t = "str"   -> ParseFloat(v.s)
      [] v.t = "none"  -> Raise("TypeError")
      [] v.t = "list"  -> Raise("TypeError")

Truncated(f) == IF f.ok THEN [ok |-> TRUE, i |-> TruncDiv(f.tenths, 10)] ELSE f

\* int(float(x)): truncation toward zero
ToIntViaFloat(v) == Truncated(ToFloat(v))

-----------------------------------------------------------------------------
(* rentverse/utils/preprocessor.py: validate_property_data *)

required_fields == <<"property_type", "bedrooms", "bathrooms", "area", "furnished", "location">>

string_fields == <<"property_type", "furnished", "location">>

Range(seq) == {seq[k] : k \in 1..Len(seq)}

\* The range test on the coerced numbers (lines 494-501).
RangesValid(bedrooms, bathrooms, areaTenths) ==
    /\ ~(bedrooms < 0 \/ bedrooms > 10)
    /\ ~(bathrooms < 0 \/ bathrooms > 10)
    /\ ~(areaTenths <= 0 \/ areaTenths > 100000)

\* lines 487-512, given the three coercions: every failure (coercion, range,
\* empty string) leaves the function as a plain ValueError
ValidateCoerced(data, bd, bt, ar) ==
    IF ~bd.ok \/ ~bt.ok \/ ~ar.ok THEN Raise("ValueError")
    ELSE IF ~RangesValid(bd.i, bt.i, ar.tenths) THEN Raise("ValueError")
    ELSE IF \E f \in Range(string_fields) : Strip(Str(data[f])) = <<>>
         THEN Raise("ValueError")
    ELSE [ok   |-> TRUE,
          data |-> [k \in DOMAIN data |->
                      CASE k = "bedrooms"  -> PyInt(bd.i)
                        [] k = "bathrooms" -> PyInt(bt.i)
                        [] k = "area"      -> PyFloat(ar.tenths)
                        [] k \in Range(string_fields) -> PyStr(Strip(Str(data[k])))
                        [] OTHER -> data[k]]]

\* validate_property_data(data): the validated copy, or the ValueError it raises
validate_property_data(data) ==
    IF \E f \in Range(required_fields) : f \notin DOMAIN data
    THEN Raise("ValueError")
    ELSE ValidateCoerced(data, ToIntViaFloat(data["bedrooms"]),
                         ToIntViaFloat(data["bathrooms"]), ToFloat(data["area"]))

-----------------------------------------------------------------------------
(* rentverse/utils/preprocessor.py: ImprovedDataPreprocessor *)

\* pd.isna on a scalar
IsNA(v) == v.t \in {"none", "nan"}

\* value of a number in tenths
Num(v) == IF v.t = "int" THEN 10 * v.i ELSE v.tenths

IsNumber(v) == v.t \in {"int", "float"}

KeepDigitsOnly(chars) == SelectSeq(chars, LAMBDA c : IsDigit(c))

\* re.sub(r'[^\d.]', '', s)
KeepDigitsAndDots(chars) == SelectSeq(chars, LAMBDA c : IsDigit(c) \/ c = ".")

\* _clean_price / _clean_area share one body: missing -> NaN; otherwise every
\* character but digits and '.' is deleted and the rest parsed; an empty rest or
\* a failed parse gives NaN.
ParsedOrNaN(parsed) == IF parsed.ok THEN PyFloat(parsed.tenths) ELSE PyNaN

CleanParsed(cleaned) == IF cleaned = <<>> THEN PyNaN ELSE ParsedOrNaN(ParseFloat(cleaned))

CleanNumber(v) == IF IsNA(v) THEN PyNaN ELSE CleanParsed(KeepDigitsAndDots(Str(v)))

_clean_price(price_str) == CleanNumber(price_str)

_clean_area(area_str) == CleanNumber(area_str)

Max(S) == CHOOSE k \in S : \A j \in S : k >= j

SeparatorPositions(chars) ==
    {k \in 1..(Len(chars) - 1) : chars[k] = "," /\ chars[k + 1] = " "}

PartAfter(chars, seps) ==
    IF seps = {} THEN chars ELSE SubSeq(chars, Max(seps) + 2, Len(chars))

\* the part of s after the last occurrence of ", " (str.split(', ')[-1])
LastPart(chars) == PartAfter(chars, SeparatorPositions(chars))

IsWordChar(c) ==
    \/ IsDigit(c)
    \/ c = "_"
    \/ \E k \in 1..26 : LowerLetters[k] = c \/ UpperLetters[k] = c

S_unknown == <<"u","n","k","n","o","w","n">>

OrUnknown(region) == IF region # <<>> THEN region ELSE S_unknown

\* _parse_location: last ", "-separated part, stripped, lowercased, with every
\* character that is neither a word character nor whitespace removed.
_parse_location(location_str) ==
    IF IsNA(location_str) THEN S_unknown
    ELSE OrUnknown(SelectSeq(Lower(Strip(LastPart(Str(location_str)))),
                             LAMBDA c : IsWordChar(c) \/ c \in Whitespace))

\* A frame is [cols |-> set of column names, rows |-> sequence of rows], a row
\* being a function from cols to values.  NaN compares false with everything.
LessEq(v, boundTenths) == IsNumber(v) /\ Num(v) <= boundTenths

GreaterEq(v, boundTenths) == IsNumber(v) /\ Num(v) >= boundTenths

\* _remove_outliers(df), for a frame with at least one row (line 193 divides by
\* the number of rows)
_remove_outliers(pp, df) ==
    IF ~pp.remove_outliers THEN df
    ELSE LET priceOk(r) ==
                 (pp.target_column \in df.cols /\ pp.price_upper_bound.t # "none")
                     => /\ LessEq(r[pp.target_column], Num(pp.price_upper_bound))
                        /\ GreaterEq(r[pp.target_column], 5000)
                        /\ LessEq(r[pp.target_column], 80000)
             areaOk(r) ==
                 ("area" \in df.cols /\ pp.area_upper_bound.t # "none")
                     => /\ LessEq(r["area"], Num(pp.area_upper_bound))
                        /\ GreaterEq(r["area"], 2000)
                        /\ LessEq(r["area"], 50000)
             bedOk(r) ==
                 ("bedrooms" \in df.cols)
                     => LessEq(r["bedrooms"], 60) /\ GreaterEq(r["bedrooms"], 0)
             bathOk(r) ==
                 ("bathrooms" \in df.cols)
                     => LessEq(r["bathrooms"], 50) /\ GreaterEq(r["bathrooms"], 10)
         IN  [df EXCEPT !.rows =
                 SelectSeq(df.rows, LAMBDA r : priceOk(r) /\ areaOk(r) /\ bedOk(r) /\ bathOk(r))]

\* position of a class in encoder.classes_, 0-based (LabelEncoder.transform)
ClassCode(classes, chars) == (CHOOSE k \in 1..Len(classes) : classes[k] = chars) - 1

EncodeStringFirst(classes, s) ==
    PyInt(ClassCode(classes, IF s \in Range(classes) THEN s ELSE classes[1]))

\* transform step 5 for one cell: missing -> 'unknown', stringified; a value not
\* in classes_ -> 'unknown' when that is a class, else classes_[0]; then its code.
EncodeString(classes, s) ==
    PyInt(ClassCode(classes,
                    IF s \in Range(classes) THEN s
                    ELSE IF S_unknown \in Range(classes) THEN S_unknown ELSE classes[1]))

EncodeCell(classes, v) == EncodeString(classes, IF IsNA(v) THEN S_unknown ELSE Str(v))

\* whether a cell is missing after pd.to_numeric(errors='coerce')
CoercedMissing(v) == ~IsNumber(v)

\* transform steps 1-3 on one row: price (when present) and area cleaned, region
\* derived from location
CleanRow(pp, r) ==
    [c \in (DOMAIN r) \cup (IF "location" \in DOMAIN r THEN {"region"} ELSE {}) |->
        CASE c = "region" /\ "location" \in DOMAIN r -> PyStr(_parse_location(r["location"]))
          [] c = pp.target_column /\ c \in DOMAIN r  -> _clean_price(r[c])
          [] c = "area" /\ c \in DOMAIN r            -> _clean_area(r[c])
          [] OTHER -> r[c]]

CleanFrame(pp, X) ==
    [cols |-> X.cols \cup (IF "location" \in X.cols THEN {"region"} ELSE {}),
     rows |-> [k \in 1..Len(X.rows) |-> CleanRow(pp, X.rows[k])]]

GateFrameAlways(pp, df) == _remove_outliers(pp, df)

\* step 4: the outlier gate runs only when the target column is present
GateFrame(pp, df) ==
    IF pp.target_column \in df.cols THEN _remove_outliers(pp, df) ELSE df

\* step 5: every column that has a fitted encoder is encoded
EncodeRow(pp, r) ==
    [c \in DOMAIN r |->
        IF c \in DOMAIN pp.label_encoders
        THEN EncodeCell(pp.label_encoders[c], r[c]) ELSE r[c]]

EncodeFrame(pp, df) ==
    [df EXCEPT !.rows = [k \in 1..Len(df.rows) |-> EncodeRow(pp, df.rows[k])]]

\* step 6: the fitted features, and the target when it is a column
ColumnsToSelect(pp, df) ==
    Range(pp.feature_names) \cup (IF pp.target_column \in df.cols THEN {pp.target_column} ELSE {})

\* steps 7-9 on one row of the selection: whether the row survives the two
\* dropna calls.  With one row per frame the median that fills a missing numeric
\* cell is the cell itself, so a missing cell stays missing.
KeepRow(pp, columns_to_select, r) ==
    /\ (pp.target_column \in columns_to_select) => ~IsNA(r[pp.target_column])
    /\ \A c \in Range(pp.feature_names) :
           IF c \in {"bedrooms", "bathrooms", "area"}
           THEN ~CoercedMissing(r[c]) ELSE ~IsNA(r[c])

\* steps 6-9: df[columns_to_select] raises KeyError when a fitted feature is not
\* a column
SelectFrame(pp, df, columns_to_select) ==
    IF ~(columns_to_select \subseteq df.cols) THEN Raise("KeyError")
    ELSE [ok |-> TRUE,
          df |-> [cols |-> columns_to_select,
                  rows |-> SelectSeq([k \in 1..Len(df.rows) |->
                                         [c \in columns_to_select |-> df.rows[k][c]]],
                                     LAMBDA r : KeepRow(pp, columns_to_select, r))]]

SelectColumns(pp, df) == SelectFrame(pp, df, ColumnsToSelect(pp, df))

\* ImprovedDataPreprocessor.transform(X): the resulting frame, or the exception
\* raised
transform(pp, X) == SelectColumns(pp, EncodeFrame(pp, GateFrame(pp, CleanFrame(pp, X))))

-----------------------------------------------------------------------------
(* rentverse/core/exceptions.py *)

\* the `code` each exception class passes to RentVerseException.__init__
ExceptionCode(cls) ==
    CASE cls = "ModelNotFoundError" -> 503
      [] cls = "PredictionError"    -> 500
      [] cls = "ValidationError"    -> 400
      [] cls = "ModelLoadError"     -> 503

\* raise PredictionError(...) from inside `except Exception as e`: the class
\* that leaves the operation, its code, and the class that was caught.
Wrap(cls, cause) == [ok |-> FALSE, exc |-> cls, code |-> ExceptionCode(cls), cause |-> cause]

-----------------------------------------------------------------------------
(* The fitted artefacts handed to the core by joblib.load.  They are data, not   *)
(* code of the repository: a StandardScaler-like affine map and a regressor.     *)

S_Apartment == <<"A","p","a","r","t","m","e","n","t">>

S_Condominium == <<"C","o","n","d","o","m","i","n","i","u","m">>

S_Yes == <<"Y","e","s">>

S_No == <<"N","o">>

S_kuala_lumpur == <<"k","u","a","l","a"," ","l","u","m","p","u","r">>

S_penang == <<"p","e","n","a","n","g">>

S_KLCC_KL == <<"K","L","C","C",","," ","K","u","a","l","a"," ","L","u","m","p","u","r">>

\* the six features fit() stores, in its order (preprocessor.py lines 287-289)
FittedFeatures == <<"property_type", "bedrooms", "bathrooms", "area", "furnished", "region">>

\* a preprocessor as fit() leaves it; `verbose` is "True", "False", or
\* "<no attribute>" for a pickle made before the attribute existed
FittedPreprocessor(feature_names, verbose) ==
    [label_encoders    |-> [property_type |-> <<S_Apartment, S_Condominium>>,
                            furnished     |-> <<S_No, S_Yes>>,
                            region        |-> <<S_kuala_lumpur, S_penang, S_unknown>>],
     feature_names     |-> feature_names,
     target_column     |-> "price",
     remove_outliers   |-> TRUE,
     price_percentile  |-> 90,
     area_percentile   |-> 95,
     price_upper_bound |-> PyFloat(60000),
     area_upper_bound  |-> PyFloat(20000),
     verbose           |-> verbose]

\* scaler.transform(feature_df): rejects a frame whose columns are not the fitted
\* ones or that has no row; otherwise subtracts the fitted mean (unit scale).
ScalerTransform(scaler, feature_df) ==
    IF feature_df.names # scaler.feature_names_in \/ feature_df.rows = <<>>
    THEN Raise("ValueError")
    ELSE [ok |-> TRUE,
          X  |-> [r \in 1..Len(feature_df.rows) |->
                     [k \in 1..Len(feature_df.names) |->
                         Num(feature_df.rows[r][feature_df.names[k]])
                             - scaler.mean[feature_df.names[k]]]]]

RECURSIVE Dot(_, _)
Dot(coef, x) ==
    IF coef = <<>> THEN 0 ELSE coef[1] * x[1] + Dot(Tail(coef), Tail(x))

\* model.predict(scaled_features): a linear regressor, or one that raises
ModelPredict(model, X) ==
    IF model.fails THEN Raise("ValueError")
    ELSE [ok |-> TRUE,
          y  |-> [r \in 1..Len(X) |-> model.intercept + TruncDiv(Dot(model.coef, X[r]), 10)]]

\* np.expm1 on the raw outputs the log-trained regressor produces (8.0 .. 9.0),
\* in tenths
Expm1(x) ==
    CASE x = 80 -> 29800 [] x = 81 -> 32935 [] x = 82 -> 36400 [] x = 83 -> 40229
      [] x = 84 -> 44461 [] x = 85 -> 49138 [] x = 86 -> 54307 [] x = 87 -> 60019
      [] x = 88 -> 66332 [] x = 89 -> 73310 [] x = 90 -> 81021

BaseMean ==
    [property_type |-> 10, bedrooms |-> 30, bathrooms |-> 20,
     area |-> 12000, furnished |-> 10, region |-> 0]

FittedScaler == [feature_names_in |-> FittedFeatures, mean |-> BaseMean]

\* a regressor trained on prices: RM 4000 for the mean record
PriceRegressor == [fails |-> FALSE, intercept |-> 40000, coef |-> <<500, 2000, 1000, 10, 300, 100>>]

\* a regressor whose output for the mean record is 0
ZeroRegressor == [fails |-> FALSE, intercept |-> 0, coef |-> <<500, 2000, 1000, 10, 300, 100>>]

\* a regressor trained on log1p(price)
LogRegressor == [fails |-> FALSE, intercept |-> 83, coef |-> <<0, 1, 0, 0, 0, 0>>]

\* a regressor that does not fit the scaled frame and raises in predict
BrokenRegressor == [fails |-> TRUE, intercept |-> 0, coef |-> <<>>]

\* the fields _load_pipeline sets on the instance (lines 94-100 / 104-110)
Bundle(model, use_log_transform, metrics) ==
    [model |-> model, scaler |-> FittedScaler, feature_names |-> FittedFeatures,
     use_log_transform |-> use_log_transform, model_name |-> "Enhanced",
     performance_metrics |-> metrics]

-----------------------------------------------------------------------------
(* rentverse/models/ml_models.py: PropertyPricePredictionModel.predict *)

NoAttr == "<no attribute>"

\* a local or result that has not been assigned
Unset == [t |-> "unset"]

\* getattr(self.preprocessor, 'verbose', True)
OriginalVerbose(pp) == IF pp.verbose = NoAttr THEN "True" ELSE pp.verbose

\* if hasattr(self.preprocessor, 'verbose'): self.preprocessor.verbose = False
SetVerboseFalse(pp) == IF pp.verbose # NoAttr THEN [pp EXCEPT !.verbose = "False"] ELSE pp

LeaveVerbose(pp, original_verbose) == pp

\* finally: if hasattr(self.preprocessor, 'verbose'): self.preprocessor.verbose = original_verbose
RestoreVerbose(pp, original_verbose) ==
    IF pp.verbose # NoAttr THEN [pp EXCEPT !.verbose = original_verbose] ELSE pp

\* pd.DataFrame([validated_data])
FrameOf(row) == [cols |-> DOMAIN row, rows |-> <<row>>]

\* lines 181-187: the fitted feature_names that are columns of the processed
\* frame, in fitted order; a shortfall is logged, not raised
FeatureFrame(feature_names, processed_df, available_features) ==
    [names  |-> available_features,
     rows   |-> [r \in 1..Len(processed_df.rows) |->
                    [c \in Range(available_features) |-> processed_df.rows[r][c]]],
     warned |-> Len(available_features) # Len(feature_names)]

SelectWithTarget(feature_names, processed_df) ==
    FeatureFrame(feature_names, processed_df,
                 SelectSeq(feature_names \o <<"price">>, LAMBDA c : c \in processed_df.cols))

SelectFeatures(feature_names, processed_df) ==
    FeatureFrame(feature_names, processed_df,
                 SelectSeq(feature_names, LAMBDA c : c \in processed_df.cols))

\* lines 194-212: regress, invert the log transform when the bundle says so, take
\* the first prediction; a price outside [500, 50000] is logged and returned
Priced(result) ==
    [ok |-> TRUE, price |-> result, warned |-> ~(5000 <= result /\ result <= 500000)]

InvertLogNever(bundle, y) == y

\* lines 199-203
InvertLog(bundle, y) ==
    IF bundle.use_log_transform THEN [r \in 1..Len(y) |-> Expm1(y[r])] ELSE y

RegressOutcome(bundle, p) == IF ~p.ok THEN p ELSE Priced(InvertLog(bundle, p.y)[1])

Regress(bundle, X) == RegressOutcome(bundle, ModelPredict(bundle.model, X))

\* the guard every operation starts with
NotLoaded(self) == ~self.is_loaded \/ ~self.pipeline_components

PredictOutcomeUnwrapped(r, pp, stages) == [res |-> r, pp |-> pp, stages |-> stages]

\* what leaves predict after its last stage r: the price, or (lines 214-216) the
\* PredictionError that wraps whatever the stage raised
PredictOutcome(r, pp, stages) ==
    [res    |-> IF r.ok THEN r ELSE Wrap("PredictionError", r.exc),
     pp     |-> pp,
     stages |-> stages]

\* lines 191-212, given the scaler's outcome
AfterScale(self, pp, sc) ==
    IF ~sc.ok THEN PredictOutcome(sc, pp, <<"predict", "validate", "transform", "scale">>)
    ELSE PredictOutcome(Regress(self.bundle, sc.X), pp,
                        <<"predict", "validate", "transform", "scale", "regress">>)

\* lines 181-191, given the preprocessor the finally block left and the outcome
\* of transform
AfterTransform(self, pp, t) ==
    IF ~t.ok THEN PredictOutcome(t, pp, <<"predict", "validate", "transform">>)
    ELSE AfterScale(self, pp,
                    ScalerTransform(self.bundle.scaler,
                                    SelectFeatures(self.bundle.feature_names, t.df)))

\* lines 161-177, given the outcome of validation
AfterValidate(self, v) ==
    IF ~v.ok THEN PredictOutcome(v, self.preprocessor, <<"predict", "validate">>)
    ELSE AfterTransform(self,
                        RestoreVerbose(SetVerboseFalse(self.preprocessor),
                                       OriginalVerbose(self.preprocessor)),
                        transform(SetVerboseFalse(self.preprocessor), FrameOf(v.data)))

\* predict(data) as one function of the instance and the record:
\*   res    the price, or the exception that leaves predict
\*   pp     the preprocessor afterwards
\*   stages the pipeline stages that were invoked, in order
predict(self, data) ==
    IF NotLoaded(self)
    THEN [res |-> Wrap("PredictionError", "none"), pp |-> self.preprocessor, stages |-> <<"predict">>]
    ELSE AfterValidate(self, validate_property_data(data))

-----------------------------------------------------------------------------
(* PropertyPricePredictionModel.predict_single                               *)
(* Scores are held in thousandths, range factors in ten-thousandths.         *)

\* numpy's global generator as a cyclic stream: the standard-normal deviate and
\* the uniform fraction (in tenths) the next draw is made of
NormalStream == <<0, 1, -1, 3, -3, 6, -6>>

UniformStream == <<0, 5, 10, 2, 8, 3, 7>>

Draw(stream, rng) == stream[(rng % Len(stream)) + 1]

Advance(rng) == (rng + 1) % Len(NormalStream)

\* np.random.normal(mu, sigma), np.random.uniform(lo, hi)
Normal(mu, sigma, rng) == mu + sigma * Draw(NormalStream, rng)

Uniform(lo, hi, rng) == lo + ((hi - lo) * Draw(UniformStream, rng)) \div 10

Min(a, b) == IF a <= b THEN a ELSE b

Max2(a, b) == IF a >= b THEN a ELSE b

\* dict.get(key, 0.7)
MetricOr(metrics, key) == IF key \in DOMAIN metrics THEN metrics[key] ELSE 700

\* lines 241-246
ConfidenceAdjustment(test_r2, rng) ==
    IF test_r2 >= 800 THEN Normal(50, 20, rng)
    ELSE IF test_r2 >= 600 THEN Normal(20, 30, rng)
    ELSE Normal(-50, 50, rng)

ConfidenceUnclamped(metrics, rng) ==
    IF DOMAIN metrics # {}
    THEN MetricOr(metrics, "cv_mean") + ConfidenceAdjustment(MetricOr(metrics, "test_r2"), rng)
    ELSE Uniform(750, 900, rng)

\* lines 236-250; an empty metrics mapping is falsy
ConfidenceScore(metrics, rng) ==
    IF DOMAIN metrics # {}
    THEN Min(950, Max2(600, MetricOr(metrics, "cv_mean")
                              + ConfidenceAdjustment(MetricOr(metrics, "test_r2"), rng)))
    ELSE Uniform(750, 900, rng)

\* lines 253-258
RangeFactor(metrics) ==
    IF DOMAIN metrics # {}
    THEN 1000 + ((1000 - MetricOr(metrics, "test_r2")) * 15) \div 10
    ELSE 1500

\* lines 260-272; price_range is held unscaled: price (tenths) times
\* (1 -/+ range_factor) (ten-thousandths).  The timestamp is the wall clock and
\* is not held.
SingleResult(self, price, rng) ==
    [predicted_price  |-> price,
     confidence_score |-> ConfidenceScore(self.bundle.performance_metrics, rng),
     price_range      |-> [min |-> price * (10000 - RangeFactor(self.bundle.performance_metrics)),
                           max |-> price * (10000 + RangeFactor(self.bundle.performance_metrics))],
     currency         |-> "RM",
     status           |-> "success",
     model_version    |-> self.bundle.model_name,
     features_used    |-> self.bundle.feature_names]

\* lines 231-276, given what predict did: a failure of predict leaves
\* predict_single as a PredictionError and draws nothing from the generator
SingleOutcome(self, p, rng) ==
    IF ~p.res.ok
    THEN [res |-> Wrap("PredictionError", p.res.exc), pp |-> p.pp, stages |-> p.stages, rng |-> rng]
    ELSE [res |-> [ok |-> TRUE, result |-> SingleResult(self, p.res.price, rng)],
          pp |-> p.pp, stages |-> p.stages, rng |-> Advance(rng)]

\* predict_single(property_data): res is the result dictionary or the exception,
\* pp and rng the preprocessor and the generator afterwards, stages the stages run
predict_single(self, rng, property_data) ==
    IF NotLoaded(self)
    THEN [res |-> Wrap("PredictionError", "none"), pp |-> self.preprocessor,
          stages |-> <<>>, rng |-> rng]
    ELSE SingleOutcome(self, predict(self, property_data), rng)

-----------------------------------------------------------------------------
(* PropertyPricePredictionModel.classify_listing_approval                    *)
(* Prices are in tenths of RM.  The deviation                                *)
(*     ((asking_price - predicted_price) / predicted_price) * 100            *)
(* is held as the exact fraction DevNum / DevDen (DevDen > 0) and compared   *)
(* by cross-multiplication; the inputs keep clear of the values at which the *)
(* rounding of binary floating point decides a comparison (a deviation of    *)
(* exactly 15 or 30, a confidence or deviation half-way between two          *)
(* decimals).                                                                *)

Sign(x) == IF x < 0 THEN -1 ELSE 1

DevNum(a, p) == (a - p) * 100 * Sign(p)

DevDen(p) == Abs(p)

\* price_deviation > t, abs(price_deviation) <= t
DeviationAbove(a, p, t) == DevNum(a, p) > t * DevDen(p)

DeviationWithin(a, p, t) == Abs(DevNum(a, p)) <= t * DevDen(p)

\* the integer nearest to q + r/d (0 <= r < d), ties to the even one
NearestTo(q, r, d) ==
    IF 2 * r < d THEN q
    ELSE IF 2 * r > d THEN q + 1
    ELSE IF q % 2 = 0 THEN q ELSE q + 1

\* round(n / d) for d > 0
RoundHalfEven(n, d) == Sign(n) * NearestTo(Abs(n) \div d, Abs(n) % d, d)

\* a number as a fraction n / d, d > 0
Rational(n, d) == [n |-> n, d |-> d]

\* dict.get(key, default)
GetOr(d, key, default) == IF key \in DOMAIN d THEN d[key] ELSE default

S_klcc == <<"k","l","c","c">>

S_mont_kiara == <<"m","o","n","t"," ","k","i","a","r","a">>

S_bangsar == <<"b","a","n","g","s","a","r">>

S_damansara == <<"d","a","m","a","n","s","a","r","a">>

S_shah_alam == <<"s","h","a","h"," ","a","l","a","m">>

S_petaling_jaya == <<"p","e","t","a","l","i","n","g"," ","j","a","y","a">>

\* line 454
premium_areas == <<S_klcc, S_mont_kiara, S_bangsar, S_damansara, S_shah_alam, S_petaling_jaya>>

\* a recommendation: its text and, for the one that quotes a number, the number
Recommendation(text) == [text |-> text, by |-> PyNone]

\* lines 430-439, with the three lists started at 426-427
PriceRule(a, p) ==
    IF DeviationWithin(a, p, 15)
    THEN [ok |-> TRUE, price_status |-> "acceptable",
          approval_reasons |-> <<"Price within acceptable range">>,
          recommendations  |-> <<>>]
    ELSE IF DeviationAbove(a, p, 15)
    THEN [ok |-> TRUE, price_status |-> "overpriced",
          approval_reasons |-> <<>>,
          recommendations  |-> <<[text |-> "Consider reducing price by {:.1f}% for better market fit",
                                  by   |-> PyFloat(RoundHalfEven((DevNum(a, p) - 15 * DevDen(p)) * 10,
                                                                 DevDen(p)))]>>]
    ELSE [ok |-> TRUE, price_status |-> "underpriced",
          approval_reasons |-> <<"Competitively priced">>,
          recommendations  |-> <<Recommendation("Price is very competitive, consider slight increase if demand is high")>>]

\* x >= n for a value of the request: a TypeError unless x is a number
AtLeast(v, n) ==
    IF IsNumber(v) THEN [ok |-> TRUE, b |-> Num(v) >= 10 * n] ELSE Raise("TypeError")

\* x and y and z, left to right, stopping at the first false or raising operand
AndThen(x, y, z) ==
    IF ~x.ok \/ ~x.b THEN x
    ELSE IF ~y.ok \/ ~y.b THEN y
    ELSE z

WithReason(acc, reason) == [acc EXCEPT !.approval_reasons = Append(@, reason)]

WithRecommendation(acc, text) ==
    [acc EXCEPT !.recommendations = Append(@, Recommendation(text))]

SpecsOutcome(acc, adequate) ==
    IF ~adequate.ok THEN adequate
    ELSE IF adequate.b THEN WithReason(acc, "Adequate property specifications")
    ELSE WithRecommendation(acc, "Verify property specifications meet minimum standards")

\* lines 442-450, on the request as given (not the validated copy)
SpecsRule(data, acc) ==
    IF ~acc.ok THEN acc
    ELSE SpecsOutcome(acc, AndThen(AtLeast(GetOr(data, "bedrooms", PyInt(0)), 1),
                                   AtLeast(GetOr(data, "bathrooms", PyInt(0)), 1),
                                   AtLeast(GetOr(data, "area", PyInt(0)), 300)))

IsPremium(location) == \E k \in 1..Len(premium_areas) : Contains(location, premium_areas[k])

LocationOutcome(acc, location) ==
    IF location.t # "str" THEN Raise("AttributeError")
    ELSE IF IsPremium(Lower(location.s)) THEN WithReason(acc, "Good location")
    ELSE acc

\* lines 453-456
LocationRule(data, acc) ==
    IF ~acc.ok THEN acc ELSE LocationOutcome(acc, GetOr(data, "location", PyStr(<<>>)))

\* truth value and len() of the facilities value
Truthy(v) ==
    CASE v.t = "none"  -> FALSE
      [] v.t = "list"  -> v.len > 0
      [] v.t = "str"   -> v.s # <<>>
      [] v.t = "int"   -> v.i # 0
      [] v.t = "float" -> v.tenths # 0
      [] v.t = "nan"   -> TRUE

HasLen(v) == v.t \in {"list", "str"}

LenOf(v) == IF v.t = "list" THEN v.len ELSE Len(v.s)

FacilitiesOutcome(acc, facilities) ==
    IF Truthy(facilities)
    THEN IF ~HasLen(facilities) THEN Raise("TypeError")
         ELSE IF LenOf(facilities) >= 2 THEN WithReason(acc, "Adequate facilities")
         ELSE acc
    ELSE WithRecommendation(acc, "Consider highlighting available facilities")

\* lines 459-463
FacilitiesRule(data, acc) ==
    IF ~acc.ok THEN acc ELSE FacilitiesOutcome(acc, GetOr(data, "facilities", PyList(0)))

\* lines 417-463, given the predicted price: the lists the rules accumulate, or
\* the exception raised on the way
AccumulateFor(data, asking_price, p) ==
    IF ~IsNumber(asking_price) THEN Raise("TypeError")
    ELSE IF Num(asking_price) <= 0 THEN Raise("ValueError")
    ELSE IF p = 0 THEN Raise("ZeroDivisionError")
    ELSE FacilitiesRule(data, LocationRule(data, SpecsRule(data, PriceRule(Num(asking_price), p))))

Accumulate(data, p) == AccumulateFor(data, GetOr(data, "asking_price", PyInt(0)), p)

ReasonsSufficeFromOne(n) == n >= 1

\* line 466: len(approval_reasons) >= 2
ReasonsSuffice(n) == n >= 2

DecisionByReasons(acc, a, p) ==
    IF acc.price_status # "overpriced" /\ ReasonsSuffice(Len(acc.approval_reasons))
    THEN "approved"
    ELSE IF acc.price_status = "overpriced" /\ DeviationAbove(a, p, 30)
    THEN "rejected"
    ELSE "needs_review"

\* the decision of lines 466-479
Decision(acc, a, p) ==
    IF acc.price_status = "acceptable" /\ ReasonsSuffice(Len(acc.approval_reasons))
    THEN "approved"
    ELSE IF acc.price_status = "overpriced" /\ DeviationAbove(a, p, 30)
    THEN "rejected"
    ELSE "needs_review"

\* line 468, in hundredths
ApprovedConfidence(n) == Rational(Min(90, 60 + 10 * n), 1)

\* line 471, in hundredths: min(0.85, 0.5 + abs(price_deviation) / 100)
RejectedConfidence(a, p) ==
    IF 50 * DevDen(p) + Abs(DevNum(a, p)) >= 85 * DevDen(p)
    THEN Rational(85, 1)
    ELSE Rational(50 * DevDen(p) + Abs(DevNum(a, p)), DevDen(p))

KeptReasons(approval_reasons) ==
    Append(approval_reasons, "Price significantly above market rate")

\* line 472
RejectedReasons(approval_reasons) == <<"Price significantly above market rate">>

ReviewReasonsAsAccumulated(approval_reasons) == approval_reasons

\* lines 477-478
ReviewReasons(approval_reasons) ==
    IF approval_reasons = <<>> THEN <<"Requires manual review">> ELSE approval_reasons

\* lines 466-479: status, confidence, and the two lists as the decision leaves them
Decided(acc, a, p, status) ==
    CASE status = "approved" ->
            [approval_status  |-> status,
             confidence_score |-> ApprovedConfidence(Len(acc.approval_reasons)),
             approval_reasons |-> acc.approval_reasons,
             recommendations  |-> acc.recommendations]
      [] status = "rejected" ->
            [approval_status  |-> status,
             confidence_score |-> RejectedConfidence(a, p),
             approval_reasons |-> RejectedReasons(acc.approval_reasons),
             recommendations  |-> Append(acc.recommendations,
                                         Recommendation("Adjust pricing to market standards"))]
      [] status = "needs_review" ->
            [approval_status  |-> status,
             confidence_score |-> Rational(70, 1),
             approval_reasons |-> ReviewReasons(acc.approval_reasons),
             recommendations  |-> Append(acc.recommendations,
                                         Recommendation("Manual review recommended for final approval"))]

TruncateTo2(c) == c.n \div c.d

\* round(confidence_score, 2), in hundredths
Round2(c) == RoundHalfEven(c.n, c.d)

\* lines 481-490; an empty recommendations list is returned as None
ApprovalResult(dec, asking_price, p) ==
    [ok               |-> TRUE,
     approval_status  |-> dec.approval_status,
     confidence_score |-> Round2(dec.confidence_score),
     predicted_price  |-> p,
     asking_price     |-> asking_price,
     price_deviation  |-> RoundHalfEven(DevNum(Num(asking_price), p) * 10, DevDen(p)),
     approval_reasons |-> dec.approval_reasons,
     recommendations  |-> dec.recommendations,
     recommendations_is_none |-> dec.recommendations = <<>>,
     status           |-> "success"]

\* lines 466-490 for the accumulated lists
Classified(acc, asking_price, p) ==
    ApprovalResult(Decided(acc, Num(asking_price), p, Decision(acc, Num(asking_price), p)),
                   asking_price, p)

-----------------------------------------------------------------------------
(* State *)

VARIABLES
    \* the shared PropertyPricePredictionModel instance
    is_loaded,            \* self.is_loaded
    pipeline_components,  \* truth value of self.pipeline_components
    preprocessor,         \* self.preprocessor
    bundle,               \* self.model, scaler, feature_names, use_log_transform, ...
    \* the operation in progress
    pc,                   \* position in the operation
    data,                 \* its argument
    ret,                  \* what it returned or raised, Unset while it runs
    \* locals of predict
    validated_data, original_verbose, processed_df, feature_df, scaled_features,
    raised,               \* class of the exception raised inside the try, or "none"
    \* locals of predict_batch
    properties_data, results,
    \* locals of classify_listing_approval
    approval,
    \* numpy's global generator
    rng,                  \* its position in the stream of draws
    \* history
    calls,                \* stage |-> times invoked during the current operation
    pp_at_call,           \* the preprocessor when the operation was called
    \* the service around the instance
    threads,              \* thread |-> position and locals of the call it runs
    ml_model,             \* the module global ml_model: None or a reference
    instances,            \* the PropertyPricePredictionModel objects constructed so far
    model_files,          \* model directory |-> candidate file name |-> artefact
    loads,                \* history: the constructor runs so far, in order
    watched               \* history: one earlier request and what it was answered

instance  == <<is_loaded, pipeline_components, preprocessor, bundle>>

plocals   == <<validated_data, original_verbose, processed_df, feature_df, scaled_features, raised>>

blocals   == <<properties_data, results>>

service   == <<threads, ml_model, instances, model_files, loads, watched>>

vars == <<is_loaded, pipeline_components, preprocessor, bundle, pc, data, ret,
          validated_data, original_verbose, processed_df, feature_df, scaled_features,
          raised, properties_data, results, approval, rng, calls, pp_at_call,
          threads, ml_model, instances, model_files, loads, watched>>

Self == [is_loaded |-> is_loaded, pipeline_components |-> pipeline_components,
         preprocessor |-> preprocessor, bundle |-> bundle]

Stages == {"predict_single", "predict", "validate", "transform", "scale", "regress"}

NoCalls == [st \in Stages |-> 0]

Count(stages) == [st \in Stages |-> Cardinality({k \in 1..Len(stages) : stages[k] = st})]

-----------------------------------------------------------------------------
(* Inputs *)

S_empty == <<>>

S_blank == <<" ", " ">>

S_abc == <<"a","b","c">>

S_3 == <<"3">>

S_Villa == <<"V","i","l","l","a">>

S_RM_4500 == <<"R","M"," ","4",",","5","0","0",".","0","0">>

\* the record of the service's own health check and tests
BaseRecord ==
    [property_type |-> PyStr(S_Condominium), bedrooms |-> PyInt(3), bathrooms |-> PyInt(2),
     area |-> PyInt(1200), furnished |-> PyStr(S_Yes), location |-> PyStr(S_KLCC_KL)]

Without(d, key) == [k \in (DOMAIN d) \ {key} |-> d[k]]

With(d, key, v) == [k \in (DOMAIN d) \cup {key} |-> IF k = key THEN v ELSE d[k]]

BedroomValues ==
    {PyInt(-1), PyInt(0), PyInt(3), PyInt(7), PyInt(10), PyInt(11),
     PyFloat(109), PyStr(S_3), PyStr(S_abc), PyNone}

BathroomValues == {PyInt(-1), PyInt(0), PyInt(1), PyInt(2), PyInt(10), PyInt(11), PyStr(S_abc)}

AreaValues ==
    {PyInt(0), PyFloat(1), PyInt(250), PyInt(1200), PyInt(6000), PyInt(10000),
     PyFloat(100001), PyStr(S_abc), PyNone}

TextValues == {PyStr(S_empty), PyStr(S_blank), PyStr(S_Apartment), PyStr(S_Villa), PyNone, PyInt(5)}

\* records that differ from the base record in one field, lack one field, or
\* carry a target-column key
OneFieldRecords ==
    {BaseRecord}
    \cup {Without(BaseRecord, f) : f \in Range(required_fields)}
    \cup {With(BaseRecord, "bedrooms", v) : v \in BedroomValues}
    \cup {With(BaseRecord, "bathrooms", v) : v \in BathroomValues}
    \cup {With(BaseRecord, "area", v) : v \in AreaValues}
    \cup {With(BaseRecord, f, v) : f \in Range(string_fields), v \in TextValues}
    \cup {With(BaseRecord, "location", PyStr(S_penang))}
    \cup {With(BaseRecord, "price", v) : v \in {PyStr(S_RM_4500), PyInt(9000), PyNone}}

\* records that vary the three numeric fields together
NumericRecords ==
    {[BaseRecord EXCEPT !["bedrooms"] = PyInt(b), !["bathrooms"] = PyInt(t), !["area"] = PyInt(a)] :
        b \in {-1, 0, 10, 11}, t \in {-1, 0, 1, 10, 11}, a \in {0, 1, 10000, 10001}}

Records == OneFieldRecords \cup NumericRecords

-----------------------------------------------------------------------------
(* predict, statement by statement *)

StaleFeatures == <<"property_type", "bedrooms", "bathrooms", "size", "furnished", "region">>

\* the features of a preprocessor fitted on data without a location
ShortFeatures == <<"property_type", "bedrooms", "bathrooms", "area", "furnished">>

NoMetrics == [k \in {} |-> 0]

Metrics(cv_mean, test_r2) == [cv_mean |-> cv_mean, test_r2 |-> test_r2]

\* the instances an operation may find: loaded from one of the artefacts, or
\* (guard of every operation) not loaded
InitInstance ==
    /\ is_loaded \in BOOLEAN
    /\ pipeline_components = is_loaded
    /\ \E fn \in {FittedFeatures, StaleFeatures, ShortFeatures}, vb \in {"True", "False", NoAttr} :
           preprocessor = FittedPreprocessor(fn, vb)
    /\ \E m \in {PriceRegressor, ZeroRegressor, LogRegressor, BrokenRegressor} :
           bundle = Bundle(m, m = LogRegressor, Metrics(850, 900))

\* the positions the generator may be at when an operation starts
Seeds == {0, 3}

\* no thread, no global and no file takes part
NoService ==
    /\ threads = <<>>
    /\ ml_model = PyNone
    /\ instances = <<>>
    /\ model_files = <<>>
    /\ loads = <<>>
    /\ watched = Unset

InitLocals ==
    /\ rng \in Seeds
    /\ validated_data = Unset
    /\ original_verbose = Unset
    /\ processed_df = Unset
    /\ feature_df = Unset
    /\ scaled_features = Unset
    /\ raised = "none"
    /\ properties_data = <<>>
    /\ results = <<>>
    /\ approval = Unset
    /\ calls = NoCalls
    /\ NoService

InitPredict ==
    /\ InitInstance
    /\ InitLocals
    /\ pc = "idle"
    /\ data = Unset
    /\ ret = Unset
    /\ pp_at_call = preprocessor

Called(st) == [calls EXCEPT ![st] = @ + 1]

\* the first stage of a new operation
Called0(st) == [NoCalls EXCEPT ![st] = 1]

\* a caller invokes predict(data)
PredictCall ==
    /\ pc = "idle"
    /\ \E d \in Records : data' = d
    /\ pc' = "guard"
    /\ ret' = Unset
    /\ validated_data' = Unset
    /\ original_verbose' = Unset
    /\ processed_df' = Unset
    /\ feature_df' = Unset
    /\ scaled_features' = Unset
    /\ raised' = "none"
    /\ calls' = Called0("predict")
    /\ pp_at_call' = preprocessor
    /\ UNCHANGED <<service, instance, blocals, approval, rng>>

\* lines 147-148
PredictGuard ==
    /\ pc = "guard"
    /\ IF NotLoaded(Self)
       THEN ret' = Wrap("PredictionError", "none") /\ pc' = "p_done"
       ELSE ret' = ret /\ pc' = "validate"
    /\ UNCHANGED <<service, instance, data, plocals, blocals, approval, rng, calls, pp_at_call>>

ValidateStep(v) ==
    IF v.ok
    THEN validated_data' = v.data /\ raised' = raised /\ pc' = "set_verbose"
    ELSE validated_data' = validated_data /\ raised' = v.exc /\ pc' = "except"

\* lines 157-164
PredictValidate ==
    /\ pc = "validate"
    /\ ValidateStep(validate_property_data(data))
    /\ calls' = Called("validate")
    /\ UNCHANGED <<service, instance, data, ret, original_verbose, processed_df, feature_df,
                   scaled_features, blocals, approval, rng, pp_at_call>>

\* lines 168-170
PredictSetVerbose ==
    /\ pc = "set_verbose"
    /\ original_verbose' = OriginalVerbose(preprocessor)
    /\ preprocessor' = SetVerboseFalse(preprocessor)
    /\ pc' = "transform"
    /\ UNCHANGED <<service, is_loaded, pipeline_components, bundle, data, ret, validated_data,
                   processed_df, feature_df, scaled_features, raised, blocals, approval, rng,
                   calls, pp_at_call>>

TransformStep(t) ==
    IF t.ok
    THEN processed_df' = t.df /\ raised' = raised
    ELSE processed_df' = processed_df /\ raised' = t.exc

\* line 173, inside try
PredictTransform ==
    /\ pc = "transform"
    /\ TransformStep(transform(preprocessor, FrameOf(validated_data)))
    /\ pc' = "finally"
    /\ calls' = Called("transform")
    /\ UNCHANGED <<service, instance, data, ret, validated_data, original_verbose, feature_df,
                   scaled_features, blocals, approval, rng, pp_at_call>>

\* lines 174-177: the finally block runs on both exits of the try
PredictFinally ==
    /\ pc = "finally"
    /\ preprocessor' = RestoreVerbose(preprocessor, original_verbose)
    /\ pc' = IF raised # "none" THEN "except" ELSE "select"
    /\ UNCHANGED <<service, is_loaded, pipeline_components, bundle, data, ret, validated_data,
                   original_verbose, processed_df, feature_df, scaled_features, raised,
                   blocals, approval, rng, calls, pp_at_call>>

\* lines 182-187
PredictSelect ==
    /\ pc = "select"
    /\ feature_df' = SelectFeatures(bundle.feature_names, processed_df)
    /\ pc' = "scale"
    /\ UNCHANGED <<service, instance, data, ret, validated_data, original_verbose, processed_df,
                   scaled_features, raised, blocals, approval, rng, calls, pp_at_call>>

ScaleStep(sc) ==
    IF sc.ok
    THEN scaled_features' = sc.X /\ raised' = raised /\ pc' = "regress"
    ELSE scaled_features' = scaled_features /\ raised' = sc.exc /\ pc' = "except"

\* line 191
PredictScale ==
    /\ pc = "scale"
    /\ ScaleStep(ScalerTransform(bundle.scaler, feature_df))
    /\ calls' = Called("scale")
    /\ UNCHANGED <<service, instance, data, ret, validated_data, original_verbose, processed_df,
                   feature_df, blocals, approval, rng, pp_at_call>>

RegressStep(r) ==
    IF r.ok
    THEN ret' = r /\ raised' = raised /\ pc' = "p_done"
    ELSE ret' = ret /\ raised' = r.exc /\ pc' = "except"

\* lines 195-212
PredictRegress ==
    /\ pc = "regress"
    /\ RegressStep(Regress(bundle, scaled_features))
    /\ calls' = Called("regress")
    /\ UNCHANGED <<service, instance, data, validated_data, original_verbose, processed_df,
                   feature_df, scaled_features, blocals, approval, rng, pp_at_call>>

\* lines 214-216
PredictExcept ==
    /\ pc = "except"
    /\ ret' = Wrap("PredictionError", raised)
    /\ pc' = "p_done"
    /\ UNCHANGED <<service, instance, data, plocals, blocals, approval, rng, calls, pp_at_call>>

\* control is back with the caller
PredictReturn ==
    /\ pc = "p_done"
    /\ pc' = "idle"
    /\ UNCHANGED <<service, instance, data, ret, plocals, blocals, approval, rng, calls, pp_at_call>>

NextPredict ==
    \/ PredictCall
    \/ PredictGuard
    \/ PredictValidate
    \/ PredictSetVerbose
    \/ PredictTransform
    \/ PredictFinally
    \/ PredictSelect
    \/ PredictScale
    \/ PredictRegress
    \/ PredictExcept
    \/ PredictReturn

SpecPredict == InitPredict /\ [][NextPredict]_vars

\* the statement-by-statement run and the function predict agree
AgreesWith(p) ==
    /\ ret = p.res
    /\ preprocessor = p.pp
    /\ calls = Count(p.stages)

PredictAgrees ==
    pc = "p_done" => AgreesWith(predict([Self EXCEPT !.preprocessor = pp_at_call], data))

-----------------------------------------------------------------------------
(* PropertyPricePredictionModel.predict_batch *)

\* ml_models.py line 32
MAX_BATCH_SIZE == 100

\* longest batch whose records are enumerated freely
MaxSmallBatch == 3

\* a valid record, a second valid record with another price, a record that
\* lacks a field, and one whose bedrooms do not coerce
BatchRecords ==
    {BaseRecord, With(BaseRecord, "bedrooms", PyInt(7)), Without(BaseRecord, "area"),
     With(BaseRecord, "bedrooms", PyStr(S_abc))}

SmallBatches == UNION {[1..n -> BatchRecords] : n \in 0..MaxSmallBatch}

\* n copies of the base record, but for the record at position k
Filled(n, k, odd) == [i \in 1..n |-> IF i = k THEN odd ELSE BaseRecord]

\* batches one below, at, and one above the ceiling
LargeBatches ==
    {Filled(n, k, r) : n \in {MAX_BATCH_SIZE - 1, MAX_BATCH_SIZE, MAX_BATCH_SIZE + 1},
                       k \in {1, MAX_BATCH_SIZE},
                       r \in {BaseRecord, Without(BaseRecord, "area")}}

Batches == SmallBatches \cup LargeBatches

\* the instances predict_batch may find
InitBatchInstance ==
    /\ is_loaded \in BOOLEAN
    /\ pipeline_components = is_loaded
    /\ \E fn \in {FittedFeatures, StaleFeatures} : preprocessor = FittedPreprocessor(fn, "True")
    /\ \E m \in {PriceRegressor, LogRegressor}, mt \in {Metrics(850, 900), NoMetrics} :
           bundle = Bundle(m, m = LogRegressor, mt)

InitBatch ==
    /\ InitBatchInstance
    /\ InitLocals
    /\ pc = "idle"
    /\ data = Unset
    /\ ret = Unset
    /\ pp_at_call = preprocessor

\* a caller invokes predict_batch(properties_data)
BatchCall ==
    /\ pc = "idle"
    /\ \E b \in Batches : properties_data' = b
    /\ results' = <<>>
    /\ ret' = Unset
    /\ calls' = NoCalls
    /\ pp_at_call' = preprocessor
    /\ pc' = "b_guard"
    /\ UNCHANGED <<service, instance, data, plocals, approval, rng>>

\* lines 288-289
BatchGuard ==
    /\ pc = "b_guard"
    /\ IF NotLoaded(Self)
       THEN ret' = Wrap("PredictionError", "none") /\ pc' = "b_done"
       ELSE ret' = ret /\ pc' = "b_size"
    /\ UNCHANGED <<service, instance, data, plocals, blocals, approval, rng, calls, pp_at_call>>

ExceedsFromMaximum(n) == n >= MAX_BATCH_SIZE

\* line 291
ExceedsMaximum(n) == n > MAX_BATCH_SIZE

\* lines 291-294
BatchSize ==
    /\ pc = "b_size"
    /\ IF ExceedsMaximum(Len(properties_data))
       THEN ret' = Wrap("PredictionError", "none") /\ results' = results /\ pc' = "b_done"
       ELSE ret' = ret /\ results' = <<>> /\ pc' = "b_loop"
    /\ UNCHANGED <<service, instance, data, plocals, properties_data, approval, rng, calls, pp_at_call>>

TaggedFromOne(result, i) ==
    [k \in (DOMAIN result) \cup {"batch_index"} |->
        IF k = "batch_index" THEN i + 1 ELSE result[k]]

\* line 299: result['batch_index'] = i
Tagged(result, i) ==
    [k \in (DOMAIN result) \cup {"batch_index"} |->
        IF k = "batch_index" THEN i ELSE result[k]]

\* lines 303-308: the entry that stands for a failed record; `error` holds the
\* exception that left predict_single and the one it wrapped
ErrorEntry(i, e) ==
    [batch_index |-> i, error |-> <<e.exc, e.cause>>, status |-> "error"]

SwallowedEntry(ps, i) ==
    IF ps.res.ok THEN Tagged(ps.res.result, i)
    ELSE [batch_index |-> i, status |-> "success"]

\* lines 297-308: what one iteration appends
IterationEntry(ps, i) ==
    IF ps.res.ok THEN Tagged(ps.res.result, i) ELSE ErrorEntry(i, ps.res)

Tally(stages) == [st \in Stages |-> calls[st] + Count(stages)[st]]

IterationStep(ps) ==
    /\ results' = Append(results, IterationEntry(ps, Len(results)))
    /\ preprocessor' = ps.pp
    /\ rng' = ps.rng
    /\ calls' = Tally(<<"predict_single">> \o ps.stages)

\* lines 296-308: one iteration of the loop, predict_single included
BatchIterate ==
    /\ pc = "b_loop"
    /\ Len(results) < Len(properties_data)
    /\ IterationStep(predict_single(Self, rng, properties_data[Len(results) + 1]))
    /\ UNCHANGED <<service, is_loaded, pipeline_components, bundle, pc, data, ret, plocals,
                   properties_data, approval, pp_at_call>>

\* line 310
BatchReturn ==
    /\ pc = "b_loop"
    /\ Len(results) = Len(properties_data)
    /\ ret' = [ok |-> TRUE, results |-> results]
    /\ pc' = "b_done"
    /\ UNCHANGED <<service, instance, data, plocals, blocals, approval, rng, calls, pp_at_call>>

\* control is back with the caller
BatchDone ==
    /\ pc = "b_done"
    /\ pc' = "idle"
    /\ UNCHANGED <<service, instance, data, ret, plocals, blocals, approval, rng, calls, pp_at_call>>

NextBatch ==
    \/ BatchCall
    \/ BatchGuard
    \/ BatchSize
    \/ BatchIterate
    \/ BatchReturn
    \/ BatchDone

SpecBatch == InitBatch /\ [][NextBatch]_vars

-----------------------------------------------------------------------------
(* classify_listing_approval, statement by statement *)

S_Cheras_KL == <<"C","h","e","r","a","s",","," ","K","u","a","l","a"," ","L","u","m","p","u","r">>

S_pool == <<"p","o","o","l">>

\* asking prices in RM around the RM 4000 the price regressor predicts for the
\* base record: below, inside and above the 15% and 30% bands
AskingPrices == {3000, 3399, 3401, 4000, 4500, 4599, 4601, 4750, 5199, 5201, 5250, 5272, 6000}

AskingValues ==
    {PyInt(a) : a \in AskingPrices} \cup {PyNone, PyInt(0), PyInt(-100), PyStr(S_RM_4500)}

SpecVariants ==
    {BaseRecord, With(BaseRecord, "bedrooms", PyInt(0)), With(BaseRecord, "area", PyInt(250)),
     With(BaseRecord, "bedrooms", PyStr(S_3))}

LocationValues == {PyStr(S_KLCC_KL), PyStr(S_Cheras_KL)}

FacilityValues == {PyList(1), PyList(2)}

\* a listing: a property record, with or without asking_price and facilities
Listings ==
    {With(With(With(r, "location", l), "asking_price", a), "facilities", f) :
        r \in SpecVariants, l \in LocationValues, a \in AskingValues, f \in FacilityValues}
    \cup {With(With(r, "location", l), "asking_price", a) :
        r \in SpecVariants, l \in LocationValues, a \in AskingValues}
    \cup {With(r, "location", l) : r \in SpecVariants, l \in LocationValues}
    \cup {With(With(BaseRecord, "asking_price", PyInt(4000)), "facilities", f) :
        f \in {PyNone, PyList(0), PyStr(S_pool), PyInt(5)}}
    \cup {With(With(BaseRecord, "asking_price", PyInt(4000)), "location", PyInt(5)),
          With(Without(BaseRecord, "area"), "asking_price", PyInt(4000))}

\* the instances classify_listing_approval may find
InitApprovalInstance ==
    /\ is_loaded \in BOOLEAN
    /\ pipeline_components = is_loaded
    /\ \E fn \in {FittedFeatures, StaleFeatures} : preprocessor = FittedPreprocessor(fn, "True")
    /\ \E m \in {PriceRegressor, ZeroRegressor} : bundle = Bundle(m, FALSE, Metrics(850, 900))

InitApproval ==
    /\ InitApprovalInstance
    /\ InitLocals
    /\ pc = "idle"
    /\ data = Unset
    /\ ret = Unset
    /\ pp_at_call = preprocessor

\* a caller invokes classify_listing_approval(data)
ApprovalCall ==
    /\ pc = "idle"
    /\ \E d \in Listings : data' = d
    /\ approval' = Unset
    /\ ret' = Unset
    /\ raised' = "none"
    /\ calls' = NoCalls
    /\ pp_at_call' = preprocessor
    /\ pc' = "a_guard"
    /\ UNCHANGED <<service, instance, validated_data, original_verbose, processed_df, feature_df,
                   scaled_features, blocals, rng>>

\* lines 411-412
ApprovalGuard ==
    /\ pc = "a_guard"
    /\ IF NotLoaded(Self)
       THEN ret' = Wrap("PredictionError", "none") /\ pc' = "a_done"
       ELSE ret' = ret /\ pc' = "a_predict"
    /\ UNCHANGED <<service, instance, data, plocals, blocals, approval, rng, calls, pp_at_call>>

PredictedStep(p) ==
    /\ preprocessor' = p.pp
    /\ calls' = Tally(p.stages)
    /\ IF p.res.ok
       THEN approval' = [predicted_price |-> p.res.price, acc |-> Unset]
            /\ raised' = raised /\ pc' = "a_rules"
       ELSE approval' = approval /\ raised' = p.res.exc /\ pc' = "a_except"

\* line 416: the whole of predict
ApprovalPredict ==
    /\ pc = "a_predict"
    /\ PredictedStep(predict(Self, data))
    /\ UNCHANGED <<service, is_loaded, pipeline_components, bundle, data, ret, validated_data,
                   original_verbose, processed_df, feature_df, scaled_features, blocals, rng,
                   pp_at_call>>

RulesStep(acc) ==
    IF acc.ok
    THEN approval' = [approval EXCEPT !.acc = acc] /\ raised' = raised /\ pc' = "a_decide"
    ELSE approval' = approval /\ raised' = acc.exc /\ pc' = "a_except"

\* lines 417-463
ApprovalRules ==
    /\ pc = "a_rules"
    /\ RulesStep(Accumulate(data, approval.predicted_price))
    /\ UNCHANGED <<service, instance, data, ret, validated_data, original_verbose, processed_df,
                   feature_df, scaled_features, blocals, rng, calls, pp_at_call>>

\* lines 466-490
ApprovalDecide ==
    /\ pc = "a_decide"
    /\ ret' = Classified(approval.acc, GetOr(data, "asking_price", PyInt(0)),
                         approval.predicted_price)
    /\ pc' = "a_done"
    /\ UNCHANGED <<service, instance, data, plocals, blocals, approval, rng, calls, pp_at_call>>

\* lines 492-494
ApprovalExcept ==
    /\ pc = "a_except"
    /\ ret' = Wrap("PredictionError", raised)
    /\ pc' = "a_done"
    /\ UNCHANGED <<service, instance, data, plocals, blocals, approval, rng, calls, pp_at_call>>

\* control is back with the caller
ApprovalDone ==
    /\ pc = "a_done"
    /\ pc' = "idle"
    /\ UNCHANGED <<service, instance, data, ret, plocals, blocals, approval, rng, calls, pp_at_call>>

NextApproval ==
    \/ ApprovalCall
    \/ ApprovalGuard
    \/ ApprovalPredict
    \/ ApprovalRules
    \/ ApprovalDecide
    \/ ApprovalExcept
    \/ ApprovalDone

SpecApproval == InitApproval /\ [][NextApproval]_vars

-----------------------------------------------------------------------------
(* Properties of predict_batch, checked under SpecBatch *)

\* the instance as the operation in progress found it
SelfAtCall == [Self EXCEPT !.preprocessor = pp_at_call]

\* predict_single on record i of the batch alone succeeds
AloneSucceeds(i) == predict_single(SelfAtCall, 0, properties_data[i]).res.ok

\* the position of the generator when iteration i started: every later success
\* drew once from it, a failure drew nothing
RngAt(i) ==
    (rng + Len(NormalStream) * Len(ret.results)
         - Cardinality({j \in i..Len(ret.results) : ret.results[j].status = "success"}))
        % Len(NormalStream)

\* a result dictionary with its index among the keys
WithIndex(result, i) ==
    [k \in (DOMAIN result) \cup {"batch_index"} |-> IF k = "batch_index" THEN i ELSE result[k]]

\* the entry predict_single on record i alone gives, tagged with its index
EntryAlone(i) ==
    WithIndex(predict_single(SelfAtCall, RngAt(i), properties_data[i]).res.result, i - 1)

\* C1: for a list of N <= 100 records on a loaded model predict_batch returns,
\* without raising, a list of exactly N entries; entry i carries batch_index i
\* (counted from 0) and stands for record i of the input; every entry has status
\* "success" or "error"; when every record predicts on its own, all N entries
\* have status "success".
C1_BatchReturnsOneEntryPerRecord ==
    (pc = "b_done" /\ ~NotLoaded(Self) /\ Len(properties_data) <= MAX_BATCH_SIZE) =>
        /\ ret.ok
        /\ Len(ret.results) = Len(properties_data)
        /\ \A i \in 1..Len(ret.results) :
              /\ ret.results[i].batch_index = i - 1
              /\ ret.results[i].status \in {"success", "error"}
              /\ (ret.results[i].status = "success" /\ AloneSucceeds(i)) =>
                     ret.results[i].predicted_price
                         = predict(SelfAtCall, properties_data[i]).res.price
        /\ (\A i \in 1..Len(properties_data) : AloneSucceeds(i)) =>
               \A i \in 1..Len(ret.results) : ret.results[i].status = "success"

\* a batch of 100 records returned in full, every entry successful
C1_Witness ==
    /\ pc = "b_done"
    /\ ret.ok
    /\ Len(properties_data) = MAX_BATCH_SIZE
    /\ Len(ret.results) = MAX_BATCH_SIZE
    /\ \A i \in 1..Len(ret.results) :
           ret.results[i].status = "success" /\ ret.results[i].batch_index = i - 1

\* C2: entry i of the batch result is an error entry if and only if
\* predict_single on record i alone fails; it sits at batch_index i; and every
\* successful entry is what predict_single gives for its record alone,
\* whichever other records failed (a failure does not end the loop, skips
\* nothing, leaves predict_batch as an entry and not as an exception, and
\* draws nothing from the random generator).
C2_BatchIsolatesFailures ==
    (pc = "b_done" /\ ~NotLoaded(Self) /\ Len(properties_data) <= MAX_BATCH_SIZE) =>
        /\ ret.ok
        /\ Len(ret.results) = Len(properties_data)
        /\ \A i \in 1..Len(properties_data) :
              /\ (ret.results[i].status = "error") <=> ~AloneSucceeds(i)
              /\ ret.results[i].batch_index = i - 1
              /\ AloneSucceeds(i) => ret.results[i] = EntryAlone(i)

\* a batch of 100 whose first record fails: one error entry, at index 0, and 99
\* successes after it
C2_Witness ==
    /\ pc = "b_done"
    /\ ret.ok
    /\ Len(ret.results) = MAX_BATCH_SIZE
    /\ ret.results[1].status = "error"
    /\ ret.results[1].batch_index = 0
    /\ \A i \in 2..Len(ret.results) : ret.results[i].status = "success"

\* C3: predict_batch with more than 100 records is rejected as a whole: it
\* raises, no entry is produced and neither predict_single nor predict nor any
\* stage is invoked; a batch of exactly 100 records is accepted.
C3_OversizeBatchRejectedWhole ==
    (pc = "b_done" /\ ~NotLoaded(Self)) =>
        /\ Len(properties_data) > MAX_BATCH_SIZE =>
               /\ ~ret.ok
               /\ ret.exc = "PredictionError"
               /\ results = <<>>
               /\ calls = NoCalls
        /\ Len(properties_data) = MAX_BATCH_SIZE =>
               ret.ok /\ Len(ret.results) = MAX_BATCH_SIZE

\* a batch of 101 records rejected with nothing predicted
C3_Witness ==
    /\ pc = "b_done"
    /\ ~NotLoaded(Self)
    /\ Len(properties_data) = MAX_BATCH_SIZE + 1
    /\ ~ret.ok
    /\ results = <<>>
    /\ calls = NoCalls

-----------------------------------------------------------------------------
(* Properties of classify_listing_approval, checked under SpecApproval *)

\* |asking - predicted| * 100 and |predicted|: the absolute deviation, in
\* percent, is their quotient
AbsDeviationNum == Abs(Num(data["asking_price"]) - approval.predicted_price) * 100

AbsDeviationDen == Abs(approval.predicted_price)

\* d > 30 for d = (asking - predicted) / predicted * 100
DeviationAbove30 ==
    IF approval.predicted_price > 0
    THEN (Num(data["asking_price"]) - approval.predicted_price) * 100
             > 30 * approval.predicted_price
    ELSE (Num(data["asking_price"]) - approval.predicted_price) * 100
             < 30 * approval.predicted_price

\* C4: the decision is a total table over the deviation d and the number of
\* accumulated reasons: "approved" iff |d| <= 15 and at least 2 reasons were
\* accumulated, "rejected" iff d > 30, "needs_review" in every other case; a
\* successful result has exactly one of the three statuses.
C4_DecisionTable ==
    (pc = "a_done" /\ ret.ok) =>
        /\ ret.approval_status \in {"approved", "rejected", "needs_review"}
        /\ (ret.approval_status = "approved")
               <=> (/\ AbsDeviationNum <= 15 * AbsDeviationDen
                    /\ Len(approval.acc.approval_reasons) >= 2)
        /\ (ret.approval_status = "rejected") <=> DeviationAbove30
        /\ (ret.approval_status = "needs_review")
               <=> (/\ ~DeviationAbove30
                    /\ ~(/\ AbsDeviationNum <= 15 * AbsDeviationDen
                         /\ Len(approval.acc.approval_reasons) >= 2))

\* a listing inside the 15% band that accumulated exactly one reason: reviewed,
\* not approved
C4_Witness ==
    /\ pc = "a_done"
    /\ ret.ok
    /\ AbsDeviationNum <= 15 * AbsDeviationDen
    /\ Len(approval.acc.approval_reasons) = 1
    /\ ret.approval_status = "needs_review"

\* C5: when the asking price is more than 30% above the predicted price the
\* result is "rejected", approval_reasons is exactly ["Price significantly
\* above market rate"] whatever the earlier rules accumulated, and the
\* recommendations are the accumulated ones followed by "Adjust pricing to
\* market standards".
C5_RejectedResetsReasons ==
    (pc = "a_done" /\ ret.ok /\ DeviationAbove30) =>
        /\ ret.approval_status = "rejected"
        /\ ret.approval_reasons = <<"Price significantly above market rate">>
        /\ ret.recommendations
               = Append(approval.acc.recommendations,
                        [text |-> "Adjust pricing to market standards", by |-> PyNone])
        /\ ~ret.recommendations_is_none

\* a rejected listing for which the specification, location and facilities
\* rules had accumulated three reasons
C5_Witness ==
    /\ pc = "a_done"
    /\ ret.ok
    /\ DeviationAbove30
    /\ ret.approval_status = "rejected"
    /\ Len(approval.acc.approval_reasons) = 3
    /\ Len(ret.recommendations) = 2

\* C6 (as amended): the confidence_score of every approval result is the value
\* of min(0.9, 0.6 + 0.1 * reason_count) when approved, of
\* min(0.85, 0.5 + |deviation| / 100) when rejected, and 0.7 when needs_review,
\* rounded to two decimals; it lies in [0.7, 0.9].  (Scores in hundredths.)
C6_ConfidenceRounded ==
    (pc = "a_done" /\ ret.ok) =>
        /\ ret.approval_status = "approved" =>
               ret.confidence_score
                   = (IF 60 + 10 * Len(ret.approval_reasons) <= 90
                      THEN 60 + 10 * Len(ret.approval_reasons) ELSE 90)
        /\ ret.approval_status = "rejected" =>
               IF 50 * AbsDeviationDen + AbsDeviationNum >= 85 * AbsDeviationDen
               THEN ret.confidence_score = 85
               ELSE 2 * Abs(ret.confidence_score * AbsDeviationDen
                                - (50 * AbsDeviationDen + AbsDeviationNum))
                        <= AbsDeviationDen
        /\ ret.approval_status = "needs_review" => ret.confidence_score = 70
        /\ 70 <= ret.confidence_score /\ ret.confidence_score <= 90

\* a rejected listing whose formula value 0.818 is returned as 0.82
C6_Witness ==
    /\ pc = "a_done"
    /\ ret.ok
    /\ ret.approval_status = "rejected"
    /\ ret.confidence_score = 82
    /\ ret.confidence_score * AbsDeviationDen # 50 * AbsDeviationDen + AbsDeviationNum

\* C6 as stated: the returned confidence_score is the formula's value itself
C6_ConfidenceExact ==
    (pc = "a_done" /\ ret.ok) =>
        /\ ret.approval_status = "approved" =>
               ret.confidence_score
                   = (IF 60 + 10 * Len(ret.approval_reasons) <= 90
                      THEN 60 + 10 * Len(ret.approval_reasons) ELSE 90)
        /\ ret.approval_status = "rejected" =>
               IF 50 * AbsDeviationDen + AbsDeviationNum >= 85 * AbsDeviationDen
               THEN ret.confidence_score = 85
               ELSE ret.confidence_score * AbsDeviationDen
                        = 50 * AbsDeviationDen + AbsDeviationNum
        /\ ret.approval_status = "needs_review" => ret.confidence_score = 70

\* C7: called with asking_price absent or <= 0, classify_listing_approval fails
\* before any model call: predict is not run and no stage is invoked
C7_AskingCheckedBeforeModel ==
    (/\ pc = "a_done"
     /\ ~NotLoaded(Self)
     /\ ("asking_price" \notin DOMAIN data
            \/ (IsNumber(data["asking_price"]) /\ Num(data["asking_price"]) <= 0))) =>
        /\ ~ret.ok
        /\ calls = NoCalls

-----------------------------------------------------------------------------
(* Properties of predict, checked under SpecPredict *)

\* C8: a record that lacks a required field, has an empty string field, or has
\* an uncoercible or out-of-range numeric field makes the core fail with a
\* ValidationError (code 400), not with a PredictionError (code 500)
C8_ValidationFailureIsValidationError ==
    (pc = "p_done" /\ ~NotLoaded(Self) /\ calls["validate"] = 1 /\ calls["transform"] = 0) =>
        /\ ~ret.ok
        /\ ret.exc = "ValidationError"
        /\ ret.code = 400

\* the three numeric fields of the record are ints
NumericFieldsAreInts ==
    /\ {"bedrooms", "bathrooms", "area"} \subseteq DOMAIN data
    /\ \A f \in {"bedrooms", "bathrooms", "area"} : data[f].t = "int"

\* C9: a record is rejected, with no transform call, whenever bedrooms is
\* outside 0..10, bathrooms is outside 1..10 or area is not in (0, 10000]
C9_RangesEnforcedBeforeTransform ==
    (/\ pc = "p_done"
     /\ NumericFieldsAreInts
     /\ \/ data["bedrooms"].i < 0 \/ data["bedrooms"].i > 10
        \/ data["bathrooms"].i < 1 \/ data["bathrooms"].i > 10
        \/ data["area"].i <= 0 \/ data["area"].i > 10000) =>
        /\ ~ret.ok
        /\ calls["transform"] = 0

\* C10: the preprocessor's verbose flag is, after a predict call, what it was
\* before it, on every exit path (return, failure inside transform, failure in
\* scaling or regression), and predict changes no other field of the
\* preprocessor at any moment
C10_VerboseRestored ==
    /\ [preprocessor EXCEPT !.verbose = pp_at_call.verbose] = pp_at_call
    /\ pc \in {"p_done", "idle"} => preprocessor = pp_at_call

\* predict left by a failure inside transform, the flag back at True
C10_Witness ==
    /\ pc = "p_done"
    /\ ~ret.ok
    /\ ret.cause = "KeyError"
    /\ calls["transform"] = 1
    /\ pp_at_call.verbose = "True"
    /\ preprocessor.verbose = "True"

-----------------------------------------------------------------------------
(* Concurrent callers of predict on the one shared instance.  predict takes *)
(* no lock; a thread may be preempted between any two statements, so each   *)
(* statement that reads or writes self.preprocessor is a step of its own.   *)

\* number of threads that call predict
NumThreads == 2

Threads == 1..NumThreads

\* a thread that runs no call
IdleThread ==
    [pc |-> "idle", data |-> Unset, validated_data |-> Unset, original_verbose |-> Unset,
     outcome |-> Unset, ret |-> Unset]

\* a valid record, a second one, and one that fails validation
ThreadRecords ==
    {BaseRecord, With(BaseRecord, "bedrooms", PyInt(7)), Without(BaseRecord, "area")}

InitThreads ==
    /\ is_loaded \in BOOLEAN
    /\ pipeline_components = is_loaded
    /\ \E fn \in {FittedFeatures, StaleFeatures}, vb \in {"True", "False"} :
           preprocessor = FittedPreprocessor(fn, vb)
    /\ \E m \in {PriceRegressor, BrokenRegressor} : bundle = Bundle(m, FALSE, Metrics(850, 900))
    /\ InitLocals
    /\ pc = "idle"
    /\ data = Unset
    /\ ret = Unset
    /\ pp_at_call = preprocessor

\* the variables of the single caller, which takes no part here
single == <<pc, data, ret, plocals, blocals, approval, rng, calls, pp_at_call>>

\* thread t takes a step that touches nothing shared
ThreadLocalStep(t, th) ==
    /\ threads' = [threads EXCEPT ![t] = th]
    /\ UNCHANGED <<instance, single, ml_model, instances, model_files, loads, watched>>

\* thread t takes a step that leaves the shared preprocessor as pp
ThreadSharedStep(t, th, pp) ==
    /\ threads' = [threads EXCEPT ![t] = th]
    /\ preprocessor' = pp
    /\ UNCHANGED <<is_loaded, pipeline_components, bundle, single, ml_model, instances,
                   model_files, loads, watched>>

\* a request thread appears
ThreadStart(t) ==
    /\ t \notin DOMAIN threads
    /\ t = Len(threads) + 1
    /\ threads' = Append(threads, IdleThread)
    /\ UNCHANGED <<instance, single, ml_model, instances, model_files, loads, watched>>

\* thread t calls predict(data)
ThreadCall(t) ==
    /\ t \in DOMAIN threads
    /\ threads[t].pc = "idle"
    /\ \E d \in ThreadRecords : ThreadLocalStep(t, [IdleThread EXCEPT !.pc = "guard", !.data = d])

\* lines 147-148
ThreadGuard(t) ==
    /\ t \in DOMAIN threads
    /\ threads[t].pc = "guard"
    /\ ThreadLocalStep(t, IF NotLoaded(Self)
                          THEN [threads[t] EXCEPT !.pc = "p_done",
                                                  !.ret = Wrap("PredictionError", "none")]
                          ELSE [threads[t] EXCEPT !.pc = "validate"])

ThreadValidated(th, v) ==
    IF v.ok THEN [th EXCEPT !.pc = "save_verbose", !.validated_data = v.data]
    ELSE [th EXCEPT !.pc = "p_done", !.ret = Wrap("PredictionError", v.exc)]

\* lines 157-164, and 214-216 when validation raises
ThreadValidate(t) ==
    /\ t \in DOMAIN threads
    /\ threads[t].pc = "validate"
    /\ ThreadLocalStep(t, ThreadValidated(threads[t], validate_property_data(threads[t].data)))

\* line 168: original_verbose = getattr(self.preprocessor, 'verbose', True)
ThreadSaveVerbose(t) ==
    /\ t \in DOMAIN threads
    /\ threads[t].pc = "save_verbose"
    /\ ThreadLocalStep(t, [threads[t] EXCEPT !.pc = "set_verbose",
                                             !.original_verbose = OriginalVerbose(preprocessor)])

\* lines 169-170: self.preprocessor.verbose = False
ThreadSetVerbose(t) ==
    /\ t \in DOMAIN threads
    /\ threads[t].pc = "set_verbose"
    /\ ThreadSharedStep(t, [threads[t] EXCEPT !.pc = "transform"], SetVerboseFalse(preprocessor))

\* line 173: transform reads the shared preprocessor
ThreadTransform(t) ==
    /\ t \in DOMAIN threads
    /\ threads[t].pc = "transform"
    /\ ThreadLocalStep(t, [threads[t] EXCEPT
                              !.pc = "finally",
                              !.outcome = transform(preprocessor, FrameOf(threads[t].validated_data))])

\* lines 174-177: self.preprocessor.verbose = original_verbose
ThreadFinally(t) ==
    /\ t \in DOMAIN threads
    /\ threads[t].pc = "finally"
    /\ ThreadSharedStep(t, [threads[t] EXCEPT !.pc = "rest"],
                        RestoreVerbose(preprocessor, threads[t].original_verbose))

\* lines 181-216: feature selection, scaling and regression touch nothing that
\* another thread writes
ThreadRest(t) ==
    /\ t \in DOMAIN threads
    /\ threads[t].pc = "rest"
    /\ ThreadLocalStep(t, [threads[t] EXCEPT
                              !.pc = "p_done",
                              !.ret = AfterTransform(Self, preprocessor, threads[t].outcome).res])

\* control is back with the caller of thread t
ThreadReturn(t) ==
    /\ t \in DOMAIN threads
    /\ threads[t].pc = "p_done"
    /\ ThreadLocalStep(t, [threads[t] EXCEPT !.pc = "idle"])

NextThreads ==
    \E t \in Threads :
        \/ ThreadStart(t)
        \/ ThreadCall(t)
        \/ ThreadGuard(t)
        \/ ThreadValidate(t)
        \/ ThreadSaveVerbose(t)
        \/ ThreadSetVerbose(t)
        \/ ThreadTransform(t)
        \/ ThreadFinally(t)
        \/ ThreadRest(t)
        \/ ThreadReturn(t)

SpecThreads == InitThreads /\ [][NextThreads]_vars

\* every call that was started has finished
AllFinished == \A t \in DOMAIN threads : threads[t].pc = "idle"

\* C11: under any interleaving of concurrent predict calls on the shared
\* instance, once all calls have finished the preprocessor's verbose flag is the
\* one it had before the first call started.
C11_VerboseRestoredUnderInterleaving ==
    AllFinished => preprocessor.verbose = pp_at_call.verbose

-----------------------------------------------------------------------------
(* PropertyPricePredictionModel.__init__ and _load_pipeline                 *)
(* A model directory is a function from the names of the files in it to     *)
(* what joblib.load gives for each: an artefact                             *)
(*     [shape |-> "dict" | "object" | "corrupt", keys, content]             *)
(* whose keys are the mapping keys (dict) or the attributes (object) it has *)
(* and whose content gives the value under each key.                        *)

DEFAULT_MODEL_FILENAME == "enhanced_deployment_pipeline.pkl"

FALLBACK_MODEL_FILENAME == "standard_deployment_pipeline.pkl"

LEGACY_ENHANCED_FILENAME == "enhanced_price_prediction_pipeline.pkl"

LEGACY_IMPROVED_FILENAME == "improved_price_prediction_pipeline.pkl"

\* lines 64-69
model_candidates ==
    <<DEFAULT_MODEL_FILENAME, FALLBACK_MODEL_FILENAME, LEGACY_ENHANCED_FILENAME,
      LEGACY_IMPROVED_FILENAME>>

\* line 89
required_keys == <<"preprocessor", "model", "scaler", "feature_names">>

LastExisting(dir, existing) == IF existing = <<>> THEN PyNone ELSE PyStr(existing[Len(existing)])

\* lines 71-77: the first candidate that exists, or None
FirstExisting(dir, existing) == IF existing = <<>> THEN PyNone ELSE PyStr(existing[1])

ModelPath(dir) == FirstExisting(dir, SelectSeq(model_candidates, LAMBDA c : c \in DOMAIN dir))

\* dict.get(key, default) and getattr(obj, key, default)
ItemOr(artefact, key, default) ==
    IF key \in artefact.keys THEN artefact.content[key] ELSE default

\* the attributes of a fresh instance, lines 42-50
UnloadedBundle ==
    [model |-> PyNone, scaler |-> PyNone, feature_names |-> PyNone,
     use_log_transform |-> FALSE, model_name |-> PyNone, performance_metrics |-> PyNone]

\* lines 94-100 and 104-110: the attributes the artefact resolves to
Resolved(artefact) ==
    [model               |-> artefact.content["model"],
     scaler              |-> artefact.content["scaler"],
     feature_names       |-> artefact.content["feature_names"],
     use_log_transform   |-> ItemOr(artefact, "use_log_transform", FALSE),
     model_name          |-> ItemOr(artefact, "model_name", "Unknown"),
     performance_metrics |-> ItemOr(artefact, "performance_metrics", NoMetrics)]

\* the truth value of self.pipeline_components: an empty mapping is falsy
ArtefactTruth(artefact) == artefact.shape = "object" \/ artefact.keys # {}

\* lines 87-112: the exception raised while the attributes are taken, or "none"
ResolveRaises(artefact) ==
    IF artefact.shape = "dict"
    THEN IF Range(required_keys) \subseteq artefact.keys THEN "none" ELSE "ModelLoadError"
    ELSE IF "preprocessor" \notin artefact.keys THEN "ModelLoadError"
    ELSE IF {"model", "scaler", "feature_names"} \subseteq artefact.keys THEN "none"
    ELSE "AttributeError"

\* what the constructor leaves for a directory: the instance, or the
\* ModelLoadError of lines 121-123
LoadedFrom(artefact) ==
    IF artefact.shape = "corrupt" THEN Wrap("ModelLoadError", "UnpicklingError")
    ELSE IF ResolveRaises(artefact) # "none" THEN Wrap("ModelLoadError", ResolveRaises(artefact))
    ELSE [ok   |-> TRUE,
          self |-> [is_loaded |-> TRUE, pipeline_components |-> ArtefactTruth(artefact),
                    preprocessor |-> artefact.content["preprocessor"],
                    bundle |-> Resolved(artefact)]]

LoadedAt(dir, model_path) ==
    IF model_path = PyNone THEN Wrap("ModelLoadError", "ModelLoadError")
    ELSE LoadedFrom(dir[model_path.s])

\* PropertyPricePredictionModel(model_dir), as one function of the directory
Constructed(dir) == LoadedAt(dir, ModelPath(dir))

-----------------------------------------------------------------------------
(* The directories a load may find *)

Content(name) ==
    [preprocessor |-> FittedPreprocessor(FittedFeatures, "True"), model |-> LogRegressor,
     scaler |-> FittedScaler, feature_names |-> FittedFeatures, use_log_transform |-> TRUE,
     model_name |-> name, performance_metrics |-> Metrics(850, 900)]

OptionalKeys == {"use_log_transform", "model_name", "performance_metrics"}

Artefact(shape, keys, name) == [shape |-> shape, keys |-> keys, content |-> Content(name)]

\* every key set that has all required keys but one, or all of them, with all,
\* one or none of the optional keys; and the empty one
KeySets ==
    {{}}
    \cup {Range(required_keys) \ {k} : k \in Range(required_keys)}
    \cup {(Range(required_keys) \ {k}) \cup OptionalKeys : k \in Range(required_keys)}
    \cup {Range(required_keys) \cup o : o \in {{}, OptionalKeys} \cup {{k} : k \in OptionalKeys}}

Artefacts(name) ==
    {Artefact(sh, ks, name) : sh \in {"dict", "object"}, ks \in KeySets}
    \cup {Artefact("corrupt", {}, name)}

OneFile(c, a) == [f \in {c} |-> a]

TwoFiles(c1, a1, c2, a2) == [f \in {c1, c2} |-> IF f = c1 THEN a1 ELSE a2]

\* no file; one candidate file of every kind; two candidate files of which one is
\* a minimal mapping and the other a full mapping, a mapping without its model,
\* or corrupt; and all four
Directories ==
    {[f \in {} |-> 0]}
    \cup UNION {{OneFile(c, a) : a \in Artefacts(c)} : c \in Range(model_candidates)}
    \cup {TwoFiles(c[1], Artefact(k[1], k[2], c[1]),
                   c[2], Artefact("dict", Range(required_keys), c[2])) :
              c \in {q \in Range(model_candidates) \X Range(model_candidates) : q[1] # q[2]},
              k \in {<<"dict", Range(required_keys) \cup OptionalKeys>>,
                     <<"dict", Range(required_keys) \ {"model"}>>,
                     <<"corrupt", {}>>}}
    \cup {[f \in Range(model_candidates) |-> Artefact("object", Range(required_keys), f)]}

-----------------------------------------------------------------------------
(* The constructor, statement by statement.  The instance under construction *)
(* is held in is_loaded, pipeline_components, preprocessor and bundle; data  *)
(* is its model_dir.                                                         *)

\* constructor runs a behaviour holds
MaxLoads == 2

InitLoad ==
    /\ is_loaded = FALSE
    /\ pipeline_components = FALSE
    /\ preprocessor = PyNone
    /\ bundle = UnloadedBundle
    /\ pc = "idle"
    /\ data = Unset
    /\ ret = Unset
    /\ pp_at_call = PyNone
    /\ rng = 0
    /\ validated_data = Unset
    /\ original_verbose = Unset
    /\ processed_df = Unset
    /\ feature_df = Unset
    /\ scaled_features = Unset
    /\ raised = "none"
    /\ properties_data = <<>>
    /\ results = <<>>
    /\ approval = Unset
    /\ calls = NoCalls
    /\ threads = <<>>
    /\ ml_model = PyNone
    /\ instances = <<>>
    /\ \E d \in Directories : model_files = [default |-> d]
    /\ loads = <<>>
    /\ watched = Unset

\* what a load leaves alone
beside_load == <<validated_data, original_verbose, processed_df, feature_df, scaled_features,
                 blocals, approval, rng, calls, pp_at_call, threads, ml_model, instances,
                 model_files, watched>>

\* the artefact at the path the search found
FoundArtefact == model_files[data][ModelPath(model_files[data]).s]

\* lines 41-53: PropertyPricePredictionModel(model_dir)
LoadCall ==
    /\ pc = "idle"
    /\ Len(loads) < MaxLoads
    /\ is_loaded' = FALSE
    /\ pipeline_components' = FALSE
    /\ preprocessor' = PyNone
    /\ bundle' = UnloadedBundle
    /\ ret' = Unset
    /\ raised' = "none"
    /\ \E d \in DOMAIN model_files :
           /\ data' = d
           /\ loads' = Append(loads, [by |-> "caller", ok |-> Constructed(model_files[d]).ok])
    /\ pc' = "l_find"
    /\ UNCHANGED beside_load

\* lines 64-80
LoadFind ==
    /\ pc = "l_find"
    /\ IF ModelPath(model_files[data]) = PyNone
       THEN raised' = "ModelLoadError" /\ pc' = "l_except"
       ELSE raised' = raised /\ pc' = "l_read"
    /\ UNCHANGED <<instance, data, ret, loads, beside_load>>

\* line 83: joblib.load
LoadRead ==
    /\ pc = "l_read"
    /\ IF FoundArtefact.shape = "corrupt"
       THEN raised' = "UnpicklingError" /\ pipeline_components' = pipeline_components
            /\ pc' = "l_except"
       ELSE raised' = raised /\ pipeline_components' = ArtefactTruth(FoundArtefact)
            /\ pc' = "l_resolve"
    /\ UNCHANGED <<is_loaded, preprocessor, bundle, data, ret, loads, beside_load>>

\* lines 87-112: a legacy object without one of model, scaler, feature_names has
\* given its preprocessor (line 104) when the AttributeError is raised
LoadResolve ==
    /\ pc = "l_resolve"
    /\ raised' = ResolveRaises(FoundArtefact)
    /\ preprocessor' = IF ResolveRaises(FoundArtefact) \in {"none", "AttributeError"}
                       THEN FoundArtefact.content["preprocessor"] ELSE preprocessor
    /\ bundle' = IF ResolveRaises(FoundArtefact) = "none" THEN Resolved(FoundArtefact) ELSE bundle
    /\ pc' = IF ResolveRaises(FoundArtefact) = "none" THEN "l_flag" ELSE "l_except"
    /\ UNCHANGED <<is_loaded, pipeline_components, data, ret, loads, beside_load>>

\* lines 114-119
LoadFlag ==
    /\ pc = "l_flag"
    /\ is_loaded' = TRUE
    /\ ret' = [ok |-> TRUE, self |-> [Self EXCEPT !.is_loaded = TRUE]]
    /\ pc' = "l_done"
    /\ UNCHANGED <<pipeline_components, preprocessor, bundle, data, raised, loads, beside_load>>

\* lines 121-123
LoadExcept ==
    /\ pc = "l_except"
    /\ ret' = Wrap("ModelLoadError", raised)
    /\ pc' = "l_done"
    /\ UNCHANGED <<instance, data, raised, loads, beside_load>>

\* control is back with the caller of the constructor
LoadDone ==
    /\ pc = "l_done"
    /\ pc' = "idle"
    /\ UNCHANGED <<instance, data, ret, raised, loads, beside_load>>

NextLoad ==
    \/ LoadCall
    \/ LoadFind
    \/ LoadRead
    \/ LoadResolve
    \/ LoadFlag
    \/ LoadExcept
    \/ LoadDone

SpecLoad == InitLoad /\ [][NextLoad]_vars

\* the statement-by-statement constructor and the function agree
LoadAgrees == pc = "l_done" => ret = Constructed(model_files[data])

-----------------------------------------------------------------------------
(* Properties of the constructor, checked under SpecLoad *)

\* the candidate the fixed order puts first among the files of the directory
ChosenFile(dir) ==
    IF DEFAULT_MODEL_FILENAME \in DOMAIN dir THEN DEFAULT_MODEL_FILENAME
    ELSE IF FALLBACK_MODEL_FILENAME \in DOMAIN dir THEN FALLBACK_MODEL_FILENAME
    ELSE IF LEGACY_ENHANCED_FILENAME \in DOMAIN dir THEN LEGACY_ENHANCED_FILENAME
    ELSE IF LEGACY_IMPROVED_FILENAME \in DOMAIN dir THEN LEGACY_IMPROVED_FILENAME
    ELSE "<none>"

\* a mapping with the four required keys, or an object with them as attributes
WellShaped(artefact) ==
    /\ artefact.shape \in {"dict", "object"}
    /\ {"preprocessor", "model", "scaler", "feature_names"} \subseteq artefact.keys

\* the directory holds a candidate and the first of them is well shaped
Loadable(dir) == ChosenFile(dir) # "<none>" /\ WellShaped(dir[ChosenFile(dir)])

\* the instance carries what the artefact holds, with the defaults for what is
\* absent, whichever the artefact's shape
CarriesFieldsOf(artefact) ==
    /\ preprocessor = artefact.content["preprocessor"]
    /\ bundle.model = artefact.content["model"]
    /\ bundle.scaler = artefact.content["scaler"]
    /\ bundle.feature_names = artefact.content["feature_names"]
    /\ bundle.use_log_transform
           = (IF "use_log_transform" \in artefact.keys
              THEN artefact.content["use_log_transform"] ELSE FALSE)
    /\ bundle.model_name
           = (IF "model_name" \in artefact.keys THEN artefact.content["model_name"] ELSE "Unknown")
    /\ bundle.performance_metrics
           = (IF "performance_metrics" \in artefact.keys
              THEN artefact.content["performance_metrics"] ELSE NoMetrics)

\* C14: a load fails with ModelLoadError, and is_loaded is true at no moment of
\* it, when the directory has no candidate file, the mapping found lacks one of
\* preprocessor, model, scaler, feature_names, or the object found has no
\* preprocessor attribute; a mapping with the four keys and an object with the
\* four attributes are accepted and resolve to the same fields, with
\* use_log_transform, model_name and performance_metrics defaulting to False,
\* 'Unknown' and {}; of several candidate files the first in the order enhanced
\* deployment, standard deployment, legacy enhanced, legacy improved is loaded.
C14_LoadFailsFastOrResolves ==
    (loads # <<>>) =>
        /\ ~Loadable(model_files[data]) => ~is_loaded
        /\ (pc = "l_done" /\ ~Loadable(model_files[data])) =>
               ~ret.ok /\ ret.exc = "ModelLoadError"
        /\ (pc = "l_done" /\ Loadable(model_files[data])) =>
               /\ ret.ok
               /\ is_loaded
               /\ CarriesFieldsOf(model_files[data][ChosenFile(model_files[data])])

\* the standard deployment file and the legacy improved file both exist: the
\* standard one, a mapping of the four keys alone, is loaded with the defaults
C14_Witness ==
    /\ pc = "l_done"
    /\ ret.ok
    /\ is_loaded
    /\ DOMAIN model_files[data] = {FALLBACK_MODEL_FILENAME, LEGACY_IMPROVED_FILENAME}
    /\ model_files[data][FALLBACK_MODEL_FILENAME].keys
           = {"preprocessor", "model", "scaler", "feature_names"}
    /\ bundle.model_name = "Unknown"
    /\ bundle.use_log_transform = FALSE
    /\ bundle.performance_metrics = NoMetrics

-----------------------------------------------------------------------------
(* The module global ml_model: get_ml_model and reload_ml_model, called from *)
(* threads.  Neither takes a lock.  The constructor works on an object no    *)
(* other thread can reach and is one step; the test of the global, the store *)
(* into it and the read that returns it are steps of their own.              *)
(* instances is the heap of constructed objects, a reference [t |-> "ref",   *)
(* id |-> k] standing for instances[k].                                      *)

Ref(k) == [t |-> "ref", id |-> k]

\* the global directory that DEFAULT_MODEL_DIR names, and another one a reload
\* may be given
ModelDirs == {"default", "other"}

GoodDefault ==
    OneFile(DEFAULT_MODEL_FILENAME,
            Artefact("dict", Range(required_keys) \cup OptionalKeys, DEFAULT_MODEL_FILENAME))

GoodOther ==
    OneFile(FALLBACK_MODEL_FILENAME,
            Artefact("object", Range(required_keys), FALLBACK_MODEL_FILENAME))

BadOther ==
    OneFile(DEFAULT_MODEL_FILENAME,
            Artefact("dict", Range(required_keys) \ {"model"}, DEFAULT_MODEL_FILENAME))

NoFiles == [f \in {} |-> 0]

IdleCaller ==
    [pc |-> "idle", op |-> "none", model_dir |-> "default", built |-> Unset, model |-> Unset,
     ret |-> Unset]

InitLoader ==
    /\ is_loaded = FALSE
    /\ pipeline_components = FALSE
    /\ preprocessor = PyNone
    /\ bundle = UnloadedBundle
    /\ pc = "idle"
    /\ data = Unset
    /\ ret = Unset
    /\ pp_at_call = PyNone
    /\ rng = 0
    /\ validated_data = Unset
    /\ original_verbose = Unset
    /\ processed_df = Unset
    /\ feature_df = Unset
    /\ scaled_features = Unset
    /\ raised = "none"
    /\ properties_data = <<>>
    /\ results = <<>>
    /\ approval = Unset
    /\ calls = NoCalls
    /\ threads = [t \in Threads |-> IdleCaller]
    /\ ml_model = PyNone
    /\ instances = <<>>
    /\ \E d \in {GoodDefault, NoFiles}, o \in {GoodOther, BadOther} :
           model_files = [default |-> d, other |-> o]
    /\ loads = <<>>
    /\ watched = Unset

\* the variables of the single instance and its single caller, and the history
\* of requests
core == <<instance, single, watched>>

\* constructor runs so far, and those the calls in progress may still make
MayLoad ==
    Len(loads)
        + Cardinality({t \in DOMAIN threads :
                           threads[t].pc \in {"g_check", "g_construct", "r_construct"}})

\* thread t takes a step that leaves the global and the heap alone
CallerStep(t, th) ==
    /\ threads' = [threads EXCEPT ![t] = th]
    /\ UNCHANGED <<core, ml_model, instances, model_files, loads>>

\* a caller invokes get_ml_model()
GetCall(t) ==
    /\ threads[t].pc = "idle"
    /\ MayLoad < MaxLoads
    /\ CallerStep(t, [IdleCaller EXCEPT !.pc = "g_check", !.op = "get_ml_model"])

\* line 504: if ml_model is None
GetCheck(t) ==
    /\ threads[t].pc = "g_check"
    /\ CallerStep(t, [threads[t] EXCEPT
                         !.pc = IF ml_model = PyNone THEN "g_construct" ELSE "g_return"])

HeapOverwritten(heap, built) ==
    IF ~built.ok THEN heap
    ELSE IF heap = <<>> THEN Append(heap, built.self)
    ELSE [heap EXCEPT ![Len(heap)] = built.self]

\* the heap after a constructor run: a new object when the load succeeded (the
\* object of a failed load is reachable from nowhere)
HeapAfter(heap, built) == IF built.ok THEN Append(heap, built.self) ELSE heap

\* a constructor run by thread t, which goes on at `next` when it succeeded
ConstructStep(t, built, next) ==
    /\ instances' = HeapAfter(instances, built)
    /\ loads' = Append(loads, [by |-> threads[t].op, ok |-> built.ok])
    /\ threads' = [threads EXCEPT ![t] =
                      IF built.ok
                      THEN [@ EXCEPT !.pc = next, !.built = Ref(Len(HeapAfter(instances, built)))]
                      ELSE [@ EXCEPT !.pc = "done", !.ret = built]]
    /\ UNCHANGED <<core, ml_model, model_files>>

\* line 505, right-hand side: PropertyPricePredictionModel()
GetConstruct(t) ==
    /\ threads[t].pc = "g_construct"
    /\ ConstructStep(t, Constructed(model_files["default"]), "g_assign")

\* line 505, the store into the global
GetAssign(t) ==
    /\ threads[t].pc = "g_assign"
    /\ ml_model' = threads[t].built
    /\ threads' = [threads EXCEPT ![t].pc = "g_return"]
    /\ UNCHANGED <<core, instances, model_files, loads>>

\* line 506: return ml_model
GetReturn(t) ==
    /\ threads[t].pc = "g_return"
    /\ CallerStep(t, [threads[t] EXCEPT !.pc = "use", !.model = ml_model,
                                        !.ret = [ok |-> TRUE, model |-> ml_model]])

\* the caller uses the instance it was given: predict on the health-check record
CallerUse(t) ==
    /\ threads[t].pc = "use"
    /\ CallerStep(t, [threads[t] EXCEPT
                         !.pc = "done",
                         !.ret = [ok |-> TRUE, model |-> threads[t].model,
                                  used |-> predict(instances[threads[t].model.id], BaseRecord).res]])

\* a caller invokes reload_ml_model(model_dir)
ReloadCall(t) ==
    /\ threads[t].pc = "idle"
    /\ MayLoad < MaxLoads
    /\ \E d \in ModelDirs :
           CallerStep(t, [IdleCaller EXCEPT !.pc = "r_construct", !.op = "reload_ml_model",
                                            !.model_dir = d])

\* line 512, right-hand side: PropertyPricePredictionModel(model_dir)
ReloadConstruct(t) ==
    /\ threads[t].pc = "r_construct"
    /\ ConstructStep(t, Constructed(model_files[threads[t].model_dir]), "r_assign")

\* line 512, the store into the global
ReloadAssign(t) ==
    /\ threads[t].pc = "r_assign"
    /\ ml_model' = threads[t].built
    /\ threads' = [threads EXCEPT ![t].pc = "r_return"]
    /\ UNCHANGED <<core, instances, model_files, loads>>

\* line 513: return ml_model
ReloadReturn(t) ==
    /\ threads[t].pc = "r_return"
    /\ CallerStep(t, [threads[t] EXCEPT !.pc = "done", !.model = ml_model,
                                        !.ret = [ok |-> TRUE, model |-> ml_model]])

\* control is back with the caller, which keeps nothing
CallerDone(t) ==
    /\ threads[t].pc = "done"
    /\ CallerStep(t, IdleCaller)

NextLoader ==
    \E t \in Threads :
        \/ GetCall(t)
        \/ GetCheck(t)
        \/ GetConstruct(t)
        \/ GetAssign(t)
        \/ GetReturn(t)
        \/ CallerUse(t)
        \/ ReloadCall(t)
        \/ ReloadConstruct(t)
        \/ ReloadAssign(t)
        \/ ReloadReturn(t)
        \/ CallerDone(t)

SpecLoader == InitLoader /\ [][NextLoader]_vars

-----------------------------------------------------------------------------
(* Properties of the global instance, checked under SpecLoader *)

\* no constructor run so far was made by reload_ml_model
NoReloadYet == \A k \in DOMAIN loads : loads[k].by # "reload_ml_model"

\* the threads that hold an instance get_ml_model returned to them
Holders == {t \in Threads : threads[t].op = "get_ml_model" /\ threads[t].model.t = "ref"}

\* C12: across any number of get_ml_model calls, overlapping ones included, the
\* constructor runs successfully at most once and every caller is given the
\* same instance, as long as there was no reload.
C12_LoadedOnce ==
    NoReloadYet =>
        /\ Cardinality({k \in DOMAIN loads : loads[k].ok}) <= 1
        /\ \A t1 \in Holders, t2 \in Holders : threads[t1].model = threads[t2].model

\* an instance whose load went through
FullyLoaded(inst) ==
    /\ inst.is_loaded
    /\ inst.preprocessor # PyNone
    /\ inst.bundle.model # PyNone
    /\ inst.bundle.scaler # PyNone
    /\ inst.bundle.feature_names # PyNone

\* the global is None or refers to a fully loaded instance
GlobalIsNoneOrLoaded ==
    \/ ml_model = PyNone
    \/ /\ ml_model.t = "ref"
       /\ ml_model.id \in DOMAIN instances
       /\ FullyLoaded(instances[ml_model.id])

\* a reload whose constructor raises ends with ModelLoadError and leaves the
\* global as it was
FailedReloadKeepsGlobal ==
    \A t \in Threads :
        (threads[t].pc = "r_construct" /\ threads'[t].pc = "done") =>
            /\ ~threads'[t].ret.ok
            /\ threads'[t].ret.exc = "ModelLoadError"
            /\ ml_model' = ml_model

\* a caller that was given an instance keeps that instance, and the instance
\* stays as it was, whatever the other threads do
HeldInstanceKept ==
    \A t \in Threads :
        threads[t].pc = "use" =>
            /\ threads'[t].model = threads[t].model
            /\ instances'[threads[t].model.id] = instances[threads[t].model.id]

\* C13: at every moment the global ml_model is None or a fully loaded instance
\* (is_loaded with preprocessor, model, scaler and feature_names set); a reload
\* whose load fails raises ModelLoadError and leaves the installed instance in
\* place; a request that obtained the old instance before a swap keeps using
\* that instance, unchanged.
C13_ReloadSwapsAtomically ==
    /\ []GlobalIsNoneOrLoaded
    /\ [][FailedReloadKeepsGlobal /\ HeldInstanceKept]_vars

\* a caller still holds the first instance while the global already refers to
\* the one a reload from the other directory installed
C13_Witness ==
    \E t \in Threads :
        /\ threads[t].pc = "use"
        /\ threads[t].model = Ref(1)
        /\ ml_model = Ref(2)
        /\ FullyLoaded(instances[1])
        /\ FullyLoaded(instances[2])
        /\ instances[1] # instances[2]

-----------------------------------------------------------------------------
(* rentverse/main.py and rentverse/api/routes: the service.  Every handler   *)
(* is a coroutine without an await, so the event loop runs one handler at a  *)
(* time and a handler is one step.  data is the parsed request, ret the      *)
(* response; ml_model, instances and loads are as above.                     *)

S_PropertyType_CONDOMINIUM ==
    <<"P","r","o","p","e","r","t","y","T","y","p","e",".","C","O","N","D","O","M","I","N","I","U","M">>

S_FurnishedType_YES == <<"F","u","r","n","i","s","h","e","d","T","y","p","e",".","Y","E","S">>

\* a member of a (str, Enum) class: a string whose str() is its qualified name
EnumMember(qualified, value) == [t |-> "enum", s |-> value, qualified |-> qualified]

\* the parsed requests: every field within the bounds the schema declares
BaseRequest ==
    [property_type |-> EnumMember(S_PropertyType_CONDOMINIUM, S_Condominium),
     bedrooms |-> PyInt(3), bathrooms |-> PyInt(2), area |-> PyFloat(12000),
     furnished |-> EnumMember(S_FurnishedType_YES, S_Yes), location |-> PyStr(S_KLCC_KL)]

PropertyRequests == {BaseRequest, With(BaseRequest, "bedrooms", PyInt(7))}

BatchRequests ==
    {[properties |-> ps] :
        ps \in {<<r>> : r \in PropertyRequests}
                \cup {<<BaseRequest, With(BaseRequest, "bedrooms", PyInt(7))>>}}

OptionalFields == {"property_age", "parking_spaces", "floor_level", "facilities"}

ApprovalRequest(r, a, f) ==
    [k \in (DOMAIN r) \cup {"asking_price"} \cup OptionalFields |->
        IF k \in DOMAIN r THEN r[k]
        ELSE IF k = "asking_price" THEN PyFloat(10 * a)
        ELSE IF k = "facilities" THEN f
        ELSE PyNone]

ApprovalRequests ==
    {ApprovalRequest(r, 4000, PyList(2)) : r \in PropertyRequests}
    \cup {ApprovalRequest(r, 9000, PyNone) : r \in PropertyRequests}

Endpoints ==
    {"predict/single", "predict/batch", "predict/model-info", "classify/price",
     "classify/approval"}

RequestsOf(endpoint) ==
    CASE endpoint = "predict/single"     -> PropertyRequests
      [] endpoint = "predict/batch"      -> BatchRequests
      [] endpoint = "predict/model-info" -> {PyNone}
      [] endpoint = "classify/price"     -> PropertyRequests
      [] endpoint = "classify/approval"  -> ApprovalRequests

\* request.model_dump(): the fields of the parsed object, enum members kept
model_dump(request) == [k \in DOMAIN request |-> request[k]]

get_ml_model_always(global, heap, built) ==
    IF built.ok
    THEN [ok |-> TRUE, model |-> Ref(Len(HeapAfter(heap, built))),
          global |-> Ref(Len(HeapAfter(heap, built))), heap |-> HeapAfter(heap, built),
          ran |-> <<[by |-> "get_ml_model", ok |-> TRUE]>>]
    ELSE [ok |-> FALSE, exc |-> built.exc, cause |-> built.cause, global |-> global,
          heap |-> heap, ran |-> <<[by |-> "get_ml_model", ok |-> FALSE]>>]

\* get_ml_model() when no other call is in progress; built is what the
\* constructor would leave.  ran lists the constructor runs made.
get_ml_model(global, heap, built) ==
    IF global # PyNone
    THEN [ok |-> TRUE, model |-> global, global |-> global, heap |-> heap, ran |-> <<>>]
    ELSE IF built.ok
    THEN [ok |-> TRUE, model |-> Ref(Len(HeapAfter(heap, built))),
          global |-> Ref(Len(HeapAfter(heap, built))), heap |-> HeapAfter(heap, built),
          ran |-> <<[by |-> "get_ml_model", ok |-> TRUE]>>]
    ELSE [ok |-> FALSE, exc |-> built.exc, cause |-> built.cause, global |-> global,
          heap |-> heap, ran |-> <<[by |-> "get_ml_model", ok |-> FALSE]>>]

\* get_model(): the legacy name of get_ml_model
get_model(global, heap, built) == get_ml_model(global, heap, built)

\* classify_listing_approval(data), lines 411-494, given the accumulated lists
ApprovalAfterRules(listing, p, acc) ==
    [res |-> IF acc.ok
             THEN Classified(acc, GetOr(listing, "asking_price", PyInt(0)), p.res.price)
             ELSE Wrap("PredictionError", acc.exc),
     pp  |-> p.pp]

\* ... given what predict did
ApprovalAfterPredict(listing, p) ==
    IF ~p.res.ok THEN [res |-> Wrap("PredictionError", p.res.exc), pp |-> p.pp]
    ELSE ApprovalAfterRules(listing, p, Accumulate(listing, p.res.price))

\* classify_listing_approval(data) as one function of the instance and the
\* listing: res is the result dictionary or the exception, pp the preprocessor
\* afterwards
classify_listing_approval(self, listing) ==
    IF NotLoaded(self) THEN [res |-> Wrap("PredictionError", "none"), pp |-> self.preprocessor]
    ELSE ApprovalAfterPredict(listing, predict(self, listing))

RECURSIVE BatchLoop(_, _, _, _), BatchNext(_, _, _, _)
\* lines 296-310: the loop of predict_batch from the entries made so far
BatchLoop(self, seed, properties, entries) ==
    IF Len(entries) = Len(properties)
    THEN [res |-> [ok |-> TRUE, results |-> entries], pp |-> self.preprocessor, rng |-> seed]
    ELSE BatchNext(self, properties, entries,
                   predict_single(self, seed, properties[Len(entries) + 1]))

BatchNext(self, properties, entries, ps) ==
    BatchLoop([self EXCEPT !.preprocessor = ps.pp], ps.rng, properties,
              Append(entries, IterationEntry(ps, Len(entries))))

\* predict_batch(properties_data) as one function of the instance, the
\* generator and the list
predict_batch(self, seed, properties) ==
    IF NotLoaded(self) \/ ExceedsMaximum(Len(properties))
    THEN [res |-> Wrap("PredictionError", "none"), pp |-> self.preprocessor, rng |-> seed]
    ELSE BatchLoop(self, seed, properties, <<>>)

\* get_model_info(), lines 312-342; components is self.pipeline_components, the
\* object joblib.load returned: only a mapping has keys()
get_model_info(self, components) ==
    IF NotLoaded(self) THEN Wrap("PredictionError", "none")
    ELSE IF components.shape # "dict" THEN Raise("AttributeError")
    ELSE [ok                       |-> TRUE,
          model_version            |-> self.bundle.model_name,
          feature_columns          |-> self.bundle.feature_names,
          is_loaded                |-> self.is_loaded,
          max_batch_size           |-> MAX_BATCH_SIZE,
          use_log_transform        |-> self.bundle.use_log_transform,
          performance_metrics      |-> self.bundle.performance_metrics,
          feature_importance       |-> PyNone,
          pipeline_components_keys |-> components.keys]

\* what the body of a handler leaves: its result or the exception raised, the
\* preprocessor of the instance and the generator afterwards
Out(res, pp, seed) == [res |-> res, pp |-> pp, rng |-> seed]

\* prediction.py lines 43-47
\* the result dictionary a successful predict_single returns
Returned(res) ==
    IF ~res.ok THEN res
    ELSE [k \in (DOMAIN res.result) \cup {"ok"} |-> IF k = "ok" THEN TRUE ELSE res.result[k]]

SingleResponse(ps) == Out(Returned(ps.res), ps.pp, ps.rng)

predict_single_property(self, seed, request) ==
    SingleResponse(predict_single(self, seed, model_dump(request)))

\* prediction.py lines 131-145: the summary of the entries
BatchResponse(entries, total) ==
    [ok            |-> TRUE,
     predictions   |-> entries,
     total_count   |-> total,
     success_count |-> Cardinality({i \in DOMAIN entries : entries[i].status = "success"}),
     error_count   |-> Cardinality({i \in DOMAIN entries : entries[i].status = "error"})]

Summarised(b, total) ==
    IF b.res.ok THEN Out(BatchResponse(b.res.results, total), b.pp, b.rng)
    ELSE Out(b.res, b.pp, b.rng)

\* prediction.py lines 121-156
predict_batch_properties(self, seed, request) ==
    IF Len(request.properties) > 100
    THEN Out(Raise("ValidationError"), self.preprocessor, seed)
    ELSE Summarised(predict_batch(self, seed,
                                  [i \in DOMAIN request.properties |->
                                      model_dump(request.properties[i])]),
                    Len(request.properties))

\* prediction.py lines 208-211
get_model_info_route(self, components, seed) ==
    Out(get_model_info(self, components), self.preprocessor, seed)

\* classification.py lines 48-65; the ends of the range (price * 0.9 and
\* price * 1.1) are held in hundredths of RM
PriceResponse(p, seed) ==
    IF ~p.res.ok THEN Out(p.res, p.pp, seed)
    ELSE Out([ok              |-> TRUE,
              predicted_price |-> p.res.price,
              price_range     |-> [min |-> p.res.price * 9, max |-> p.res.price * 11],
              currency        |-> "RM",
              status          |-> "success"],
             p.pp, seed)

predict_price(self, seed, request) == PriceResponse(predict(self, model_dump(request)), seed)

\* classification.py lines 148-151
ApprovalResponse(c, seed) == Out(c.res, c.pp, seed)

classify_listing_approval_route(self, seed, request) ==
    ApprovalResponse(classify_listing_approval(self, model_dump(request)), seed)

\* the try block of a handler after get_model returned the instance
Body(endpoint, self, components, seed, request) ==
    CASE endpoint = "predict/single"     -> predict_single_property(self, seed, request)
      [] endpoint = "predict/batch"      -> predict_batch_properties(self, seed, request)
      [] endpoint = "predict/model-info" -> get_model_info_route(self, components, seed)
      [] endpoint = "classify/price"     -> predict_price(self, seed, request)
      [] endpoint = "classify/approval"  -> classify_listing_approval_route(self, seed, request)

\* the except clauses of a handler, in order: the status of the HTTPException
\* raised for an exception of class exc
HandlerStatus(endpoint, exc) ==
    IF exc = "ModelNotFoundError" THEN 503
    ELSE IF exc = "ValidationError" /\ endpoint # "predict/model-info" THEN 400
    ELSE 500

\* the response: 200 with the result, or the status the except clauses choose;
\* stage tells whether get_model or the body raised
Answer(endpoint, stage, res) ==
    IF res.ok THEN [status |-> 200, body |-> res, raised |-> "none", stage |-> stage]
    ELSE [status |-> HandlerStatus(endpoint, res.exc), body |-> PyNone, raised |-> res.exc,
          stage |-> stage]

\* the instance after a call that left its preprocessor as pp
InstanceAfterFlipped(self, pp) ==
    [self EXCEPT !.preprocessor = pp, !.bundle.use_log_transform = ~@]

InstanceAfter(self, pp) == [self EXCEPT !.preprocessor = pp]

\* the file the served instance was loaded from
ServedComponents == model_files["default"][ModelPath(model_files["default"]).s]

\* a handler from get_model on: the response, and the heap and the generator
\* afterwards
HandledBy(endpoint, g, out) ==
    [response |-> Answer(endpoint, "body", out.res),
     heap     |-> [g.heap EXCEPT ![g.model.id] = InstanceAfter(@, out.pp)],
     rng      |-> out.rng]

Handled(endpoint, request, g, seed) ==
    IF ~g.ok
    THEN [response |-> Answer(endpoint, "get_model", g), heap |-> g.heap, rng |-> seed]
    ELSE HandledBy(endpoint, g,
                   Body(endpoint, g.heap[g.model.id], ServedComponents, seed, request))

\* the part of a response that the core computes without the generator
Determined(endpoint, response) ==
    IF response.status # 200 THEN [status |-> response.status, raised |-> response.raised]
    ELSE IF endpoint = "predict/single" THEN response.body.predicted_price
    ELSE response.body

Watchable == {"predict/single", "classify/price", "classify/approval"}

\* the history: the first request chosen to be watched and its answer, whether
\* it was sent again, and whether another request came after it
Watched(endpoint, request, response, keep) ==
    IF watched = Unset
    THEN IF keep /\ endpoint \in Watchable
         THEN [request |-> [endpoint |-> endpoint, request |-> request],
               answer  |-> Determined(endpoint, response), again |-> FALSE, others |-> FALSE]
         ELSE Unset
    ELSE IF watched.request = [endpoint |-> endpoint, request |-> request]
    THEN [watched EXCEPT !.again = TRUE]
    ELSE [watched EXCEPT !.others = TRUE]

\* what a request leaves alone
beside_service ==
    <<instance, pc, plocals, blocals, approval, calls, pp_at_call, threads, model_files>>

InitService ==
    /\ is_loaded = FALSE
    /\ pipeline_components = FALSE
    /\ preprocessor = PyNone
    /\ bundle = UnloadedBundle
    /\ pc = "boot"
    /\ data = Unset
    /\ ret = Unset
    /\ pp_at_call = PyNone
    /\ rng \in Seeds
    /\ validated_data = Unset
    /\ original_verbose = Unset
    /\ processed_df = Unset
    /\ feature_df = Unset
    /\ scaled_features = Unset
    /\ raised = "none"
    /\ properties_data = <<>>
    /\ results = <<>>
    /\ approval = Unset
    /\ calls = NoCalls
    /\ threads = <<>>
    /\ ml_model = PyNone
    /\ instances = <<>>
    /\ \E d \in {GoodDefault, GoodOther, BadOther, NoFiles} : model_files = [default |-> d]
    /\ loads = <<>>
    /\ watched = Unset

StartedWith(g) ==
    /\ ml_model' = g.global
    /\ instances' = g.heap
    /\ loads' = loads \o g.ran

\* main.py lines 27-47: startup loads the model and goes on whatever happens
Lifespan ==
    /\ pc = "boot"
    /\ StartedWith(get_model(ml_model, instances, Constructed(model_files["default"])))
    /\ pc' = "serving"
    /\ UNCHANGED <<is_loaded, pipeline_components, preprocessor, bundle, data, ret, plocals,
                   blocals, approval, rng, calls, pp_at_call, threads, model_files, watched>>

Responded(endpoint, request, g, h, keep) ==
    /\ data' = [endpoint |-> endpoint, request |-> request]
    /\ ret' = h.response
    /\ ml_model' = g.global
    /\ instances' = h.heap
    /\ loads' = loads \o g.ran
    /\ rng' = h.rng
    /\ watched' = Watched(endpoint, request, h.response, keep)

ServedWith(endpoint, request, g, keep) ==
    Responded(endpoint, request, g, Handled(endpoint, request, g, rng), keep)

\* one request to one of the model endpoints, from get_model to the response
Serve(endpoint) ==
    /\ pc = "serving"
    /\ ~(ml_model = PyNone /\ Len(loads) >= MaxLoads)
    /\ \E request \in RequestsOf(endpoint), keep \in {watched = Unset, FALSE} :
           ServedWith(endpoint, request,
                      get_model(ml_model, instances, Constructed(model_files["default"])), keep)
    /\ UNCHANGED beside_service

ServePredictSingle == Serve("predict/single")

ServePredictBatch == Serve("predict/batch")

ServeModelInfo == Serve("predict/model-info")

ServeClassifyPrice == Serve("classify/price")

ServeClassifyApproval == Serve("classify/approval")

NextService ==
    \/ Lifespan
    \/ ServePredictSingle
    \/ ServePredictBatch
    \/ ServeModelInfo
    \/ ServeClassifyPrice
    \/ ServeClassifyApproval

SpecService == InitService /\ [][NextService]_vars

-----------------------------------------------------------------------------
(* Claims about the service *)

\* C15: when the model artefact cannot be loaded, so that get_model raises the
\* load error, a model endpoint (predict/single, predict/batch,
\* predict/model-info, classify/price, classify/approval) answers with HTTP 503
\* and not with 500.
C15_LoadFailureAnswers503 ==
    (ret # Unset /\ ret.stage = "get_model" /\ ret.raised = "ModelLoadError")
        => ret.status = 503

\* C16: the core is deterministic.  A request to predict (classify/price, and
\* the price of predict/single) or to classify_listing_approval that is sent a
\* second time, with any other requests in between and no reload, is answered
\* as it was the first time: the same predicted price, and the same approval
\* status, reasons, recommendations and confidence.
C16_CoreIsDeterministic ==
    (watched # Unset /\ data = watched.request)
        => Determined(data.endpoint, ret) = watched.answer

\* a listing was classified, other requests followed, and the same listing was
\* classified again by the loaded model
C16_Witness ==
    /\ watched # Unset
    /\ watched.again
    /\ watched.others
    /\ data = watched.request
    /\ data.endpoint = "classify/approval"
    /\ ret.status = 200
    /\ ret.body.approval_status = "approved"
    /\ rng # 0

-----------------------------------------------------------------------------
(* predict_single on instances with every kind of stored metrics *)

\* stored scores in thousandths.  cv_mean and test_r2 are whatever training
\* wrote into the artefact; the coefficient of determination of a model that
\* fits worse than the mean is negative.
CvMeans == {0, 500, 600, 700, 850, 950, 1000}

TestR2s == {-1000, 0, 500, 598, 600, 798, 800, 900, 1000}

\* the metrics mappings: none, empty, both scores, one score, neither score
MetricSets ==
    {NoMetrics}
    \cup {Metrics(c, r) : c \in CvMeans, r \in TestR2s}
    \cup {[cv_mean |-> c] : c \in CvMeans}
    \cup {[test_r2 |-> r] : r \in TestR2s}
    \cup {[train_r2 |-> 900]}

InitSingleInstance ==
    /\ is_loaded \in BOOLEAN
    /\ pipeline_components = is_loaded
    /\ preprocessor = FittedPreprocessor(FittedFeatures, "True")
    /\ \E m \in {PriceRegressor, LogRegressor}, mt \in MetricSets :
           bundle = Bundle(m, m = LogRegressor, mt)

InitSingle ==
    /\ InitSingleInstance
    /\ InitLocals
    /\ pc = "idle"
    /\ data = Unset
    /\ ret = Unset
    /\ pp_at_call = preprocessor

\* a caller invokes predict_single(property_data)
SingleCall ==
    /\ pc = "idle"
    /\ \E d \in ThreadRecords : data' = d
    /\ ret' = Unset
    /\ pp_at_call' = preprocessor
    /\ pc' = "s_body"
    /\ UNCHANGED <<service, instance, plocals, blocals, approval, rng, calls>>

SingleStep(ps) ==
    /\ ret' = ps.res
    /\ preprocessor' = ps.pp
    /\ rng' = ps.rng
    /\ calls' = Tally(<<"predict_single">> \o ps.stages)

\* lines 228-276: the whole of predict_single
SingleBody ==
    /\ pc = "s_body"
    /\ SingleStep(predict_single(Self, rng, data))
    /\ pc' = "s_done"
    /\ UNCHANGED <<service, is_loaded, pipeline_components, bundle, data, plocals, blocals,
                   approval, pp_at_call>>

\* control is back with the caller
SingleDone ==
    /\ pc = "s_done"
    /\ pc' = "idle"
    /\ calls' = NoCalls
    /\ UNCHANGED <<service, instance, data, ret, plocals, blocals, approval, rng, pp_at_call>>

NextSingle ==
    \/ SingleCall
    \/ SingleBody
    \/ SingleDone

SpecSingle == InitSingle /\ [][NextSingle]_vars

\* whether the instance holds performance metrics: an empty mapping is none
MetricsAvailable == DOMAIN bundle.performance_metrics # {}

\* C17: every successful predict_single, whatever the random draw, returns a
\* confidence_score in [0.6, 0.95] when performance metrics are available, and
\* in [0.75, 0.90] when they are absent, an empty mapping counting as absent; in
\* all cases the score lies in [0, 1].
C17_ConfidenceWithinBounds ==
    (pc = "s_done" /\ ret.ok) =>
        /\ MetricsAvailable
               => 600 <= ret.result.confidence_score /\ ret.result.confidence_score <= 950
        /\ ~MetricsAvailable
               => 750 <= ret.result.confidence_score /\ ret.result.confidence_score <= 900
        /\ 0 <= ret.result.confidence_score /\ ret.result.confidence_score <= 1000

\* the base score plus the drawn perturbation exceeds 0.95, and the returned
\* score is the clamp
C17_Witness ==
    /\ pc = "s_done"
    /\ ret.ok
    /\ bundle.performance_metrics = Metrics(950, 900)
    /\ rng = 6
    /\ ret.result.confidence_score = 950

\* the half-width of the price range, in ten-thousandths, that the claim gives
\* for the stored metrics
HalfWidth ==
    IF ~MetricsAvailable THEN 1500
    ELSE 1000 + ((1000 - MetricOr(bundle.performance_metrics, "test_r2")) * 15) \div 10

\* C18: the price range of predict_single is symmetric around predicted_price,
\* min = price * (1 - h) and max = price * (1 + h), with h = 0.10 + (1 - test_r2)
\* * 0.15 when metrics are available and h = 0.15 otherwise, and for every
\* stored test_r2 value h stays within 10% to 25%.
C18_RangeSymmetricWithin10To25 ==
    (pc = "s_done" /\ ret.ok) =>
        /\ ret.result.price_range.min = ret.result.predicted_price * (10000 - HalfWidth)
        /\ ret.result.price_range.max = ret.result.predicted_price * (10000 + HalfWidth)
        /\ 1000 <= HalfWidth /\ HalfWidth <= 2500

-----------------------------------------------------------------------------
(* ImprovedDataPreprocessor.transform, step by step.  data is the frame X,   *)
(* processed_df the copy the steps work on, pp_at_call the preprocessor as   *)
(* fit() left it.                                                            *)

S_A_B == <<"A",","," ","B">>

S_AB == <<"A",",","B">>

S_Ipoh == <<"I","p","o","h",",">>

S_bang == <<"a",","," ","!">>

\* the vocabularies fit() may leave (sorted, as LabelEncoder keeps them): with
\* and without the class 'unknown'
Vocabularies ==
    {[property_type |-> pt, furnished |-> <<S_No, S_Yes>>, region |-> rg] :
        pt \in {<<S_Apartment, S_Condominium>>, <<S_Apartment, S_Condominium, S_unknown>>},
        rg \in {<<S_kuala_lumpur, S_penang, S_unknown>>, <<S_kuala_lumpur, S_penang>>}}

PropertyCells ==
    {PyStr(S_Condominium), PyStr(S_Villa), PyStr(S_unknown), PyStr(S_empty), PyNone, PyNaN,
     PyInt(5)}

FurnishedCells == {PyStr(S_Yes), PyStr(S_abc), PyNone}

LocationCells ==
    {PyStr(S_KLCC_KL), PyStr(S_penang), PyStr(S_abc), PyStr(S_blank), PyStr(S_A_B), PyStr(S_AB),
     PyStr(S_Ipoh), PyStr(S_bang), PyNone, PyInt(5)}

RegionCells == {PyStr(S_penang), PyStr(S_abc), PyNone}

S_sqft == <<"1",",","2","0","0"," ","s","q",".","f","t",".">>

S_1_2_3 == <<"1",".","2",".","3">>

S_dot == <<".">>

S_minus_5 == <<"-","5">>

S_850_5_sqft == <<"8","5","0",".","5"," ","s","q","f","t">>

\* raw cells of the price and area columns: numbers, text with units and
\* separators, text without a digit, text with two decimal points, missing
RawNumberCells ==
    {PyInt(1200), PyFloat(8505), PyStr(S_RM_4500), PyStr(S_850_5_sqft), PyStr(S_sqft),
     PyStr(S_1_2_3), PyStr(S_dot), PyStr(S_minus_5), PyStr(S_abc), PyStr(S_empty), PyNone, PyNaN}

\* records at and beyond each limit of the outlier gate, one field at a time;
\* FittedPreprocessor holds the bounds RM 6000 and 2000 sqft
LimitRecords ==
    {With(BaseRecord, "bedrooms", PyInt(b)) : b \in {0, 6, 7, 10}}
    \cup {With(BaseRecord, "bathrooms", PyInt(b)) : b \in {1, 5, 6, 10}}
    \cup {With(BaseRecord, "area", PyInt(a)) : a \in {199, 200, 2000, 2001, 5001}}

GatePrices == {PyInt(499), PyInt(500), PyInt(6000), PyInt(6001), PyInt(8001)}

\* one-row frames: every combination of the categorical cells; a region column
\* in place of the location; a column missing; a target column; raw price and
\* area cells; records at the limits of the gate with and without a target
\* column, and as listings
Frames ==
    {FrameOf(With(With(With(BaseRecord, "property_type", p), "furnished", f), "location", l)) :
        p \in PropertyCells, f \in FurnishedCells, l \in LocationCells}
    \cup {FrameOf(With(Without(BaseRecord, "location"), "region", g)) : g \in RegionCells}
    \cup {FrameOf(Without(BaseRecord, f)) : f \in {"property_type", "location"}}
    \cup {FrameOf(With(BaseRecord, "price", v)) : v \in {PyStr(S_RM_4500), PyInt(9000), PyNone}}
    \cup {FrameOf(With(BaseRecord, f, v)) : f \in {"area", "price"}, v \in RawNumberCells}
    \cup {FrameOf(r) : r \in LimitRecords}
    \cup {FrameOf(With(r, "price", PyInt(4500))) : r \in LimitRecords}
    \cup {FrameOf(With(r, "asking_price", PyInt(4500))) : r \in LimitRecords}
    \cup {FrameOf(With(BaseRecord, "price", v)) : v \in GatePrices}

InitTransform ==
    /\ is_loaded = FALSE
    /\ pipeline_components = FALSE
    /\ bundle = UnloadedBundle
    /\ \E e \in Vocabularies, ro \in BOOLEAN :
           preprocessor = [FittedPreprocessor(FittedFeatures, "True") EXCEPT
                               !.label_encoders = e, !.remove_outliers = ro]
    /\ InitLocals
    /\ pc = "idle"
    /\ data = Unset
    /\ ret = Unset
    /\ pp_at_call = preprocessor

beside_transform ==
    <<service, instance, validated_data, original_verbose, feature_df, scaled_features, raised,
      blocals, approval, rng, calls, pp_at_call>>

\* a caller invokes transform(X); line 318: df = X.copy()
TransformCall ==
    /\ pc = "idle"
    /\ \E X \in Frames : data' = X /\ processed_df' = X
    /\ ret' = Unset
    /\ pc' = "t_clean"
    /\ UNCHANGED beside_transform

\* lines 320-330: steps 1 to 3
TransformClean ==
    /\ pc = "t_clean"
    /\ processed_df' = CleanFrame(preprocessor, processed_df)
    /\ pc' = "t_gate"
    /\ UNCHANGED <<beside_transform, data, ret>>

\* lines 332-334: step 4
TransformGate ==
    /\ pc = "t_gate"
    /\ processed_df' = GateFrame(preprocessor, processed_df)
    /\ pc' = "t_encode"
    /\ UNCHANGED <<beside_transform, data, ret>>

\* lines 336-347: step 5
TransformEncode ==
    /\ pc = "t_encode"
    /\ processed_df' = EncodeFrame(preprocessor, processed_df)
    /\ pc' = "t_select"
    /\ UNCHANGED <<beside_transform, data, ret>>

SelectStep(selected) ==
    /\ ret' = selected
    /\ processed_df' = IF selected.ok THEN selected.df ELSE processed_df

\* lines 349-378: steps 6 to 9
TransformSelect ==
    /\ pc = "t_select"
    /\ SelectStep(SelectColumns(preprocessor, processed_df))
    /\ pc' = "t_done"
    /\ UNCHANGED <<beside_transform, data>>

\* control is back with the caller
TransformDone ==
    /\ pc = "t_done"
    /\ pc' = "idle"
    /\ UNCHANGED <<beside_transform, data, ret, processed_df>>

NextTransform ==
    \/ TransformCall
    \/ TransformClean
    \/ TransformGate
    \/ TransformEncode
    \/ TransformSelect
    \/ TransformDone

SpecTransform == InitTransform /\ [][NextTransform]_vars

\* what the steps before the encoding make of the frame X
BeforeEncoding == GateFrame(pp_at_call, CleanFrame(pp_at_call, data))

\* the text of a cell: 'unknown' for a missing one
CellText(v) == IF IsNA(v) THEN S_unknown ELSE Str(v)

\* the vocabulary entry the claim gives for a cell
ExpectedClass(classes, v) ==
    IF CellText(v) \in Range(classes) THEN CellText(v)
    ELSE IF S_unknown \in Range(classes) THEN S_unknown
    ELSE classes[1]

\* whether cell is the integer code of entry in the vocabulary
IsCodeOf(classes, cell, entry) ==
    /\ cell.t = "int"
    /\ cell.i \in 0..(Len(classes) - 1)
    /\ classes[cell.i + 1] = entry

\* C19: categorical encoding at transform time is total and deterministic.  For
\* every fitted column and every input value, missing included, the output is
\* an integer code of the fitted vocabulary: the value's own code when it is in
\* the vocabulary, else the code of 'unknown' when that is in the vocabulary,
\* else the code of the first entry - a function of the fitted vocabulary and
\* the value alone, so the same on every call.  The step does not raise, and
\* transform leaves the fitted vocabulary as it was.
C19_EncodingTotalAndStable ==
    /\ preprocessor.label_encoders = pp_at_call.label_encoders
    /\ pc = "t_select" =>
           /\ Len(processed_df.rows) = Len(BeforeEncoding.rows)
           /\ \A k \in 1..Len(processed_df.rows) :
                  \A c \in (DOMAIN pp_at_call.label_encoders) \cap processed_df.cols :
                      IsCodeOf(pp_at_call.label_encoders[c], processed_df.rows[k][c],
                               ExpectedClass(pp_at_call.label_encoders[c],
                                             BeforeEncoding.rows[k][c]))

\* a missing property type with no 'unknown' in its vocabulary takes the code
\* of the first entry, an unseen region the code of 'unknown', and a furnished
\* value of the vocabulary its own code
C19_Witness ==
    /\ pc = "t_select"
    /\ S_unknown \notin Range(pp_at_call.label_encoders["property_type"])
    /\ S_unknown \in Range(pp_at_call.label_encoders["region"])
    /\ {"property_type", "location", "furnished"} \subseteq data.cols
    /\ data.rows[1]["property_type"] = PyNone
    /\ data.rows[1]["location"] = PyStr(S_abc)
    /\ data.rows[1]["furnished"] = PyStr(S_Yes)
    /\ processed_df.rows[1]["property_type"] = PyInt(0)
    /\ processed_df.rows[1]["region"] = PyInt(2)
    /\ processed_df.rows[1]["furnished"] = PyInt(1)

\* the segment of a string after its last comma; the string when it has none
AfterLastComma(chars) ==
    IF \E k \in 1..Len(chars) : chars[k] = ","
    THEN SubSeq(chars, Max({k \in 1..Len(chars) : chars[k] = ","}) + 1, Len(chars))
    ELSE chars

\* the region the claim gives for a location
ClaimedRegion(v) ==
    IF IsNA(v) THEN S_unknown
    ELSE OrUnknown(SelectSeq(Lower(Strip(AfterLastComma(Str(v)))),
                             LAMBDA ch : IsWordChar(ch) \/ ch \in Whitespace))

\* C20: _parse_location returns, for every location, the last comma-separated
\* segment lowercased and with the non-word characters removed, and 'unknown'
\* when that segment is empty or the location is missing; a location without a
\* comma is its own region.  The result is never the empty string and never
\* holds a comma-separated prefix of the input: "A,B" and "A, B" both give the
\* region of "B".
C20_RegionIsLastCommaSegment ==
    (pc = "t_gate" /\ "location" \in data.cols) =>
        /\ processed_df.rows[1]["region"].s = ClaimedRegion(data.rows[1]["location"])
        /\ processed_df.rows[1]["region"].s # <<>>

\* what is left of a text once every character other than a digit and '.' is
\* deleted
ClaimedRemainder(chars) ==
    SelectSeq(chars, LAMBDA ch : ch \in Range(Digits) \cup {"."})

DotsOf(chars) == {k \in 1..Len(chars) : chars[k] = "."}

\* the number a remainder of digits and dots denotes, in tenths: NaN when it is
\* empty, has no digit or has a second decimal point
ClaimedNumber(rem, dots) ==
    IF rem = <<>> \/ Cardinality(dots) > 1 \/ Len(rem) = Cardinality(dots) THEN PyNaN
    ELSE IF dots = {} THEN PyFloat(10 * DigitsToNat(rem))
    ELSE PyFloat(10 * DigitsToNat(SubSeq(rem, 1, Max(dots) - 1))
                     + DigitsToNat(SubSeq(rem, Max(dots) + 1, Len(rem))))

\* the value the claim gives for a raw cell
ClaimedClean(v) ==
    IF v.t \in {"none", "nan"} THEN PyNaN
    ELSE ClaimedNumber(ClaimedRemainder(Str(v)), DotsOf(ClaimedRemainder(Str(v))))

C21_WitnessUnits ==
    /\ pc = "t_gate"
    /\ data.rows[1]["area"] = PyStr(S_850_5_sqft)
    /\ processed_df.rows[1]["area"] = PyFloat(8505)

\* whether a cell is a number within [lo, hi], all in tenths
Between(v, lo, hi) == v.t \in {"int", "float"} /\ lo <= Num(v) /\ Num(v) <= hi

\* the limits the claim gives for a row that survives the gate
ClaimedSurvivor(pp, r) ==
    /\ Between(r["price"], 5000, 80000) /\ Num(r["price"]) <= Num(pp.price_upper_bound)
    /\ Between(r["area"], 2000, 50000) /\ Num(r["area"]) <= Num(pp.area_upper_bound)
    /\ Between(r["bedrooms"], 0, 60)
    /\ Between(r["bathrooms"], 10, 50)

\* the frame as the cleaning steps leave it
Cleaned == CleanFrame(pp_at_call, data)

\* whether a row holds a complete record at or beyond a limit of the gate
AtALimit(r) ==
    /\ DOMAIN BaseRecord \subseteq DOMAIN r
    /\ [k \in DOMAIN BaseRecord |-> r[k]] \in LimitRecords

\* what the claim says of the gate, given whether it is applied
GateAsClaimed(applied) ==
    /\ pc = "t_encode" =>
           IF applied
           THEN processed_df =
                    [Cleaned EXCEPT !.rows =
                        SelectSeq(Cleaned.rows, LAMBDA r : ClaimedSurvivor(pp_at_call, r))]
           ELSE processed_df = Cleaned
    /\ (pc = "t_done" /\ ~applied /\ AtALimit(data.rows[1])) =>
           ret.ok /\ Len(ret.df.rows) = 1

C22_WitnessKept ==
    /\ pc = "t_done"
    /\ pp_at_call.remove_outliers
    /\ "asking_price" \in data.cols
    /\ data.rows[1]["bedrooms"] = PyInt(7)
    /\ ret.ok
    /\ Len(ret.df.rows) = 1

\* the raw output of the regressor for the scaled row
RawPrediction == ModelPredict(bundle.model, scaled_features).y[1]

\* within one call: no stage twice, each stage only after the one before it
StagesOrdered ==
    pc \notin {"idle", "guard"} =>
        /\ \A st \in {"validate", "transform", "scale", "regress"} : calls[st] <= 1
        /\ calls["transform"] = 1 => (calls["validate"] = 1 /\ validated_data # Unset)
        /\ feature_df # Unset => (calls["transform"] = 1 /\ processed_df # Unset)
        /\ calls["scale"] = 1 => feature_df # Unset
        /\ calls["regress"] = 1 => calls["scale"] = 1
        /\ (pc = "p_done" /\ ret.ok) =>
               /\ \A st \in {"validate", "transform", "scale", "regress"} : calls[st] = 1
               /\ ret.price = IF bundle.use_log_transform
                              THEN Expm1(RawPrediction) ELSE RawPrediction
               /\ ret.warned = ~(5000 <= ret.price /\ ret.price <= 500000)

\* once a stage has raised, no stage runs and no feature frame is made before
\* the call is over
NothingAfterFailure ==
    (raised # "none" /\ raised' = raised) => (calls' = calls /\ feature_df' = feature_df)

\* C23: predict runs its stages in the fixed order validate, transform, select
\* features, scale, regress, and inverts the log transform (expm1) exactly when
\* the bundle's use_log_transform flag is set.  No stage runs more than once in
\* a call, a stage runs only if every earlier stage succeeded, and a result
\* outside [500, 50000] is still returned, with only a warning.
C23_StagesInFixedOrder == [](StagesOrdered) /\ [][NothingAfterFailure]_vars

\* a log-trained bundle has returned expm1 of the regressor's output
C23_Witness ==
    /\ pc = "p_done"
    /\ ret.ok
    /\ bundle.use_log_transform
    /\ calls = [NoCalls EXCEPT !["predict"] = 1, !["validate"] = 1, !["transform"] = 1,
                               !["scale"] = 1, !["regress"] = 1]
    /\ ret.price = Expm1(RawPrediction)
    /\ ret.price # RawPrediction

\* a price outside [500, 50000] has been returned
C23_WitnessOutside ==
    /\ pc = "p_done"
    /\ ret.ok
    /\ ret.warned
    /\ ~(5000 <= ret.price /\ ret.price <= 500000)

-----------------------------------------------------------------------------
(* The operations of PropertyPricePredictionModel, each call as one step     *)

\* health_check, lines 346-361: the record the test prediction is made for
test_data == BaseRecord

\* lines 366-377: the status for a test prediction, in tenths of RM
HealthStatus(price) ==
    IF 5000 <= price /\ price <= 150000 THEN "healthy"
    ELSE IF price < 5000 THEN "warning"
    ELSE IF price <= 500000 THEN "healthy"
    ELSE "warning"

\* lines 379-399, given what predict did: a failure is reported, not raised
HealthOutcome(self, p) ==
    [res |-> IF ~p.res.ok
             THEN [ok |-> TRUE, status |-> "unhealthy", message |-> "Health check failed"]
             ELSE [ok |-> TRUE, status |-> HealthStatus(p.res.price),
                   message |-> "prediction made", test_prediction |-> p.res.price],
     pp  |-> p.pp,
     stages |-> p.stages]

\* health_check() as one function of the instance
health_check(self) ==
    IF NotLoaded(self)
    THEN [res |-> [ok |-> TRUE, status |-> "unhealthy", message |-> "Pipeline not loaded"],
          pp |-> self.preprocessor, stages |-> <<>>]
    ELSE HealthOutcome(self, predict(self, test_data))

\* the instances an operation may find: loaded or not, with a preprocessor that
\* may not fit the bundle and a regressor that may raise or predict zero
InitOperations ==
    /\ is_loaded \in BOOLEAN
    /\ pipeline_components = is_loaded
    /\ \E fn \in {FittedFeatures, StaleFeatures} : preprocessor = FittedPreprocessor(fn, "True")
    /\ \E m \in {PriceRegressor, ZeroRegressor, BrokenRegressor} :
           bundle = Bundle(m, FALSE, Metrics(850, 900))
    /\ InitLocals
    /\ pc = "idle"
    /\ data = Unset
    /\ ret = Unset
    /\ pp_at_call = preprocessor

beside_operation ==
    <<service, is_loaded, pipeline_components, bundle, plocals, blocals, approval>>

\* one call of an operation from entry to exit: what it returned or raised, the
\* preprocessor and the generator it leaves, and the stages it ran
Operated(op, input, res, pp, seed, stages) ==
    /\ pc = "idle"
    /\ pc' = op
    /\ data' = input
    /\ ret' = res
    /\ preprocessor' = pp
    /\ rng' = seed
    /\ calls' = Count(stages)
    /\ pp_at_call' = preprocessor
    /\ UNCHANGED beside_operation

OperatePredictWith(d, out) == Operated("predict", d, out.res, out.pp, rng, out.stages)

OperatePredict == \E d \in Records : OperatePredictWith(d, predict(Self, d))

OperateSingleWith(d, out) == Operated("predict_single", d, out.res, out.pp, out.rng, out.stages)

OperatePredictSingle == \E d \in Records : OperateSingleWith(d, predict_single(Self, rng, d))

\* the stages predict_batch runs itself: one predict_single for each record
BatchStages(n, out) ==
    IF out.res.ok THEN [k \in 1..n |-> "predict_single"] ELSE <<>>

OperateBatchWith(b, out) ==
    Operated("predict_batch", b, out.res, out.pp, out.rng, BatchStages(Len(b), out))

OperatePredictBatch == \E b \in SmallBatches : OperateBatchWith(b, predict_batch(Self, rng, b))

\* the stages classify_listing_approval runs: those of its call of predict
ClassifyStages(self, d) == IF NotLoaded(self) THEN <<>> ELSE predict(self, d).stages

OperateClassifyWith(d, out, stages) ==
    Operated("classify_listing_approval", d, out.res, out.pp, rng, stages)

OperateClassify ==
    \E d \in Listings :
        OperateClassifyWith(d, classify_listing_approval(Self, d), ClassifyStages(Self, d))

OperateGetModelInfo ==
    \E components \in {GoodDefault[DEFAULT_MODEL_FILENAME], GoodOther[FALLBACK_MODEL_FILENAME]} :
        Operated("get_model_info", components, get_model_info(Self, components),
                 preprocessor, rng, <<>>)

OperateHealthWith(out) == Operated("health_check", PyNone, out.res, out.pp, rng, out.stages)

OperateHealthCheck == OperateHealthWith(health_check(Self))

\* control is back with the caller, which keeps nothing of the call
OperationReturn ==
    /\ pc # "idle"
    /\ pc' = "idle"
    /\ data' = Unset
    /\ ret' = Unset
    /\ calls' = NoCalls
    /\ UNCHANGED <<beside_operation, preprocessor, rng, pp_at_call>>

NextOperations ==
    \/ OperatePredict
    \/ OperatePredictSingle
    \/ OperatePredictBatch
    \/ OperateClassify
    \/ OperateGetModelInfo
    \/ OperateHealthCheck
    \/ OperationReturn

SpecOperations == InitOperations /\ [][NextOperations]_vars

\* whether the pipeline was left alone by the last operation
Untouched ==
    /\ preprocessor = pp_at_call
    /\ \A st \in {"predict_single", "validate", "transform", "scale", "regress"} : calls[st] = 0

\* C24: every failure of predict, predict_single and classify_listing_approval
\* leaves the operation as a PredictionError; no other exception type escapes
\* them.  With the model not loaded, predict, predict_single, predict_batch,
\* classify_listing_approval and get_model_info raise PredictionError without
\* touching the pipeline, and health_check returns status "unhealthy" instead
\* of raising.
C24_FailuresArePredictionErrors ==
    /\ (pc \in {"predict", "predict_single", "classify_listing_approval"} /\ ~ret.ok) =>
           ret.exc = "PredictionError"
    /\ (pc \in {"predict", "predict_single", "predict_batch", "classify_listing_approval",
                "get_model_info"} /\ ~is_loaded) =>
           /\ ret = Wrap("PredictionError", "none")
           /\ Untouched
    /\ (pc = "health_check" /\ ~is_loaded) =>
           /\ ret.ok
           /\ ret.status = "unhealthy"
           /\ Untouched

\* a zero predicted price in the deviation formula has left
\* classify_listing_approval as a PredictionError
C24_Witness ==
    /\ pc = "classify_listing_approval"
    /\ is_loaded
    /\ ~ret.ok
    /\ ret.exc = "PredictionError"
    /\ ret.cause = "ZeroDivisionError"

\* predict_batch on an instance that is not loaded has raised PredictionError
C24_WitnessNotLoaded ==
    /\ pc = "predict_batch"
    /\ ~is_loaded
    /\ ret = Wrap("PredictionError", "none")

\* position of a name in a list of names
IndexOf(names, c) == CHOOSE k \in 1..Len(names) : names[k] = c

\* whether names lists members of fitted without repetition and in the order
\* they have in fitted
InFittedOrder(names, fitted) ==
    /\ Range(names) \subseteq Range(fitted)
    /\ \A i, j \in 1..Len(names) : i < j => IndexOf(fitted, names[i]) < IndexOf(fitted, names[j])

\* C25: the frame handed to the scaler contains exactly the fitted
\* feature_names that are columns of the processed frame, in their fitted
\* order, and nothing else (no target, no location, no extra request key).
\* When an expected feature is absent from the processed frame, selection does
\* not fail: a warning is logged, the feature is omitted and the scaler is
\* called with the remaining columns.
C25_ScalerGetsFittedFeaturesPresent ==
    feature_df # Unset =>
        /\ Range(feature_df.names) = Range(bundle.feature_names) \cap processed_df.cols
        /\ InFittedOrder(feature_df.names, bundle.feature_names)
        /\ \A r \in 1..Len(feature_df.rows) :
               /\ DOMAIN feature_df.rows[r] = Range(feature_df.names)
               /\ \A c \in Range(feature_df.names) :
                      feature_df.rows[r][c] = processed_df.rows[r][c]
        /\ Len(feature_df.rows) = Len(processed_df.rows)
        /\ feature_df.warned = (Range(bundle.feature_names) \ processed_df.cols # {})
        /\ pc # "scale" => calls["scale"] = 1

\* the processed frame lacks the fitted feature region: the scaler has been
\* called with the five features left, in fitted order
C25_Witness ==
    /\ pc = "except"
    /\ feature_df # Unset
    /\ feature_df.warned
    /\ "region" \notin processed_df.cols
    /\ feature_df.names = <<"property_type", "bedrooms", "bathrooms", "area", "furnished">>
    /\ calls["scale"] = 1
    /\ raised = "ValueError"

\* a record that carries a price: the target column is in the processed frame
\* and not in the frame handed to the scaler
C25_WitnessTarget ==
    /\ pc = "regress"
    /\ "price" \in processed_df.cols
    /\ feature_df.names = FittedFeatures

-----------------------------------------------------------------------------
(* The service while the artefact is missing or broken and is then put in    *)
(* place: startup, requests, and the deployment of a loadable artefact.      *)

\* get_model calls a behaviour makes while no model is installed
MaxAttempts == 3

InitRetry ==
    /\ InitService
    /\ model_files["default"] \in {GoodDefault, BadOther, NoFiles}

\* a request to one of the model endpoints, from get_model to the response
ServeAny ==
    /\ pc = "serving"
    /\ ~(ml_model = PyNone /\ Len(loads) >= MaxAttempts)
    /\ \E endpoint \in Endpoints :
           \E request \in RequestsOf(endpoint) :
               ServedWith(endpoint, request,
                          get_model(ml_model, instances, Constructed(model_files["default"])),
                          FALSE)
    /\ UNCHANGED beside_service

\* an operator puts a loadable artefact into the model directory
Deploy ==
    /\ model_files["default"] \in {BadOther, NoFiles}
    /\ \E d \in {GoodDefault, GoodOther} : model_files' = [default |-> d]
    /\ UNCHANGED <<instance, pc, data, ret, plocals, blocals, approval, rng, calls, pp_at_call,
                   threads, ml_model, instances, loads, watched>>

NextRetry ==
    \/ Lifespan
    \/ ServeAny
    \/ Deploy

SpecRetry == InitRetry /\ [][NextRetry]_vars

\* whether the directory holds an artefact the constructor accepts
ArtefactLoadable == Loadable(model_files["default"])

\* the global is set exactly when a load has succeeded, one load at most has
\* succeeded and it is the last, and startup is over after its one attempt
LoadHistory ==
    /\ (ml_model # PyNone) = (\E k \in 1..Len(loads) : loads[k].ok)
    /\ \A k \in 1..Len(loads) : loads[k].ok => k = Len(loads)
    /\ (pc = "boot") = (loads = <<>>)

\* a get_model call, at startup or in a request: with no model installed it
\* runs the constructor once more, and installs the instance exactly when the
\* artefact is loadable; with a model installed it loads nothing
GetModelStep ==
    (model_files' = model_files) =>
        /\ pc' = "serving"
        /\ ml_model = PyNone =>
               /\ Len(loads') = Len(loads) + 1
               /\ loads'[Len(loads')].ok = ArtefactLoadable
               /\ (ml_model' # PyNone) = ArtefactLoadable
        /\ ml_model # PyNone => (loads' = loads /\ ml_model' = ml_model)

\* C26: a failed load does not poison the service.  If the first get_model (at
\* startup or on a request) fails, the global stays None, startup still
\* completes, and every later get_model call attempts the load again; once the
\* artefact becomes loadable the next call succeeds and installs the instance,
\* after which no further load happens.
C26_FailedLoadIsRetried == [](LoadHistory) /\ [][GetModelStep]_vars

\* startup and a request failed to load, the artefact was then deployed, the
\* next request loaded it, and the request after that loaded nothing
C26_Witness ==
    /\ pc = "serving"
    /\ Len(loads) = 3
    /\ ~loads[1].ok
    /\ ~loads[2].ok
    /\ loads[3].ok
    /\ ml_model # PyNone
    /\ ret # Unset
    /\ ret.status = 200
    /\ ret.stage = "body"
    /\ Len(instances) = 1

-----------------------------------------------------------------------------
(* The lists and the price bands of an approval result, checked under        *)
(* SpecApproval                                                              *)

\* the text of the last recommendation of a result
LastRecommendation == ret.recommendations[Len(ret.recommendations)].text

\* C27: every successful approval result has a non-empty approval_reasons
\* list: at least 2 entries when approved, exactly 1 when rejected, at least 1
\* when needs_review, the default "Requires manual review" being inserted
\* exactly when no rule added a reason.  recommendations is absent only for
\* approved results; rejected and needs_review results carry at least one
\* recommendation, the fixed closing recommendation being the last.
C27_ReasonsAndRecommendations ==
    (pc = "a_done" /\ ret.ok) =>
        /\ ret.approval_reasons # <<>>
        /\ ret.approval_status = "approved" => Len(ret.approval_reasons) >= 2
        /\ ret.approval_status = "rejected" => Len(ret.approval_reasons) = 1
        /\ ret.approval_status = "needs_review" =>
               ("Requires manual review" \in Range(ret.approval_reasons))
                   = (approval.acc.approval_reasons = <<>>)
        /\ ret.recommendations_is_none = (ret.recommendations = <<>>)
        /\ ret.recommendations_is_none => ret.approval_status = "approved"
        /\ ret.approval_status = "rejected" =>
               LastRecommendation = "Adjust pricing to market standards"
        /\ ret.approval_status = "needs_review" =>
               LastRecommendation = "Manual review recommended for final approval"

\* an overpriced listing to which no rule added a reason is reviewed with the
\* default reason alone
C27_Witness ==
    /\ pc = "a_done"
    /\ ret.ok
    /\ ret.approval_status = "needs_review"
    /\ approval.acc.approval_reasons = <<>>
    /\ ret.approval_reasons = <<"Requires manual review">>
    /\ Len(ret.recommendations) >= 2

\* an approved listing without any recommendation
C27_WitnessNone ==
    /\ pc = "a_done"
    /\ ret.ok
    /\ ret.approval_status = "approved"
    /\ ret.recommendations_is_none

\* the asking price is more than 15% below a (positive) predicted price
Underpriced ==
    /\ approval.predicted_price > 0
    /\ (approval.predicted_price - Num(data["asking_price"])) * 100
           > 15 * approval.predicted_price

\* the asking price is more than 15% and at most 30% above the predicted price
OverpricedWithin30 ==
    /\ approval.predicted_price > 0
    /\ (Num(data["asking_price"]) - approval.predicted_price) * 100
           > 15 * approval.predicted_price
    /\ (Num(data["asking_price"]) - approval.predicted_price) * 100
           <= 30 * approval.predicted_price

\* C28: a listing priced more than 15% below the predicted price is never
\* approved and never rejected: the underpriced rule adds "Competitively
\* priced", and the result is needs_review with confidence 0.7 however many
\* reasons accumulate; a listing overpriced by more than 15% and at most 30%
\* is needs_review as well.  Only the price rule decides between review and
\* the other two outcomes: a result is approved only for a price within 15%
\* and rejected only for one more than 30% above, and the other rules only turn
\* an acceptable price into approved.  (Confidence in hundredths.)
C28_PriceBandsForceReview ==
    (pc = "a_done" /\ ret.ok) =>
        /\ Underpriced =>
               /\ ret.approval_status = "needs_review"
               /\ ret.confidence_score = 70
               /\ "Competitively priced" \in Range(ret.approval_reasons)
        /\ OverpricedWithin30 =>
               /\ ret.approval_status = "needs_review"
               /\ ret.confidence_score = 70
        /\ ret.approval_status = "approved" => AbsDeviationNum <= 15 * AbsDeviationDen
        /\ ret.approval_status = "rejected" => DeviationAbove30
        /\ (ret.approval_status = "needs_review" /\ AbsDeviationNum <= 15 * AbsDeviationDen) =>
               Len(approval.acc.approval_reasons) < 2

\* an underpriced listing with four accumulated reasons is still reviewed
C28_Witness ==
    /\ pc = "a_done"
    /\ ret.ok
    /\ Underpriced
    /\ Len(ret.approval_reasons) = 4
    /\ ret.approval_status = "needs_review"
    /\ ret.confidence_score = 70

\* a listing 15% to 30% overpriced with two accumulated reasons is reviewed
C28_WitnessOverpriced ==
    /\ pc = "a_done"
    /\ ret.ok
    /\ OverpricedWithin30
    /\ Len(ret.approval_reasons) >= 2
    /\ ret.approval_status = "needs_review"

-----------------------------------------------------------------------------
(* Claims about the two bundle shapes and the request's enum fields, checked *)
(* under SpecService                                                         *)

\* C29: every operation of a loaded model works the same for both accepted
\* bundle shapes: for a bundle loaded from the legacy object shape,
\* get_model_info returns the model information, as it does for a
\* mapping-shaped bundle, and does not raise.
C29_ModelInfoForBothShapes ==
    (ret # Unset /\ data.endpoint = "predict/model-info" /\ ret.stage = "body") =>
        /\ ret.raised = "none"
        /\ ret.status = 200
        /\ ret.body.feature_columns = FittedFeatures

\* the request as a record of plain values: each enum member replaced by its
\* value
PlainValues(request) ==
    [k \in DOMAIN request |->
        IF request[k].t = "enum" THEN PyStr(request[k].s) ELSE request[k]]

\* what validate_property_data makes of the dumped request
SeenByCore == validate_property_data(model_dump(data.request)).data

\* C30: for a request whose property_type and furnished are supported enum
\* values of the fitted vocabulary (Condominium, Yes), the string that reaches
\* the categorical encoder after the route's model_dump and the core's
\* validate_property_data is the enum's plain value, so the request is encoded
\* with that value's own code and priced as the record of plain values is, not
\* with the fallback for unseen values.
C30_EnumReachesEncoderAsValue ==
    (ret # Unset /\ data.endpoint = "predict/single" /\ ret.status = 200) =>
        /\ SeenByCore["property_type"] = PyStr(data.request["property_type"].s)
        /\ SeenByCore["furnished"] = PyStr(data.request["furnished"].s)
        /\ ret.body.predicted_price
               = predict(instances[ml_model.id], PlainValues(data.request)).res.price

=============================================================================
